---- MODULE Spec2Model ----
(***************************************************************************)
(* Model of the colorful-emoji hook (hooks/claude_code_hooks/              *)
(* emoji_checker.py).  A Python str is a sequence of code points (naturals);*)
(* a JSON value is a tagged record [t, v]; a dict is a function whose       *)
(* DOMAIN is the set of keys present, so dict.get(k, default) can tell a   *)
(* missing key from a present one.                                         *)
(***************************************************************************)
EXTENDS Integers, Sequences, FiniteSets, TLC

VARIABLES
    pc,             \* position: "call" (arguments bound) or the name of the function that returned
    text,           \* argument of has_emojis / get_emoji_examples
    max_examples,   \* argument of get_emoji_examples
    file_path,      \* argument of is_monitored_file
    tool_name,      \* argument of extract_content_from_tool_input
    tool_input,     \* argument of extract_content_from_tool_input
    input_data,     \* argument of process_hook_request
    ret,            \* value returned (or exception raised) by the call
    cls,            \* the class attributes of EmojiChecker
    stdin,          \* what main reads: a sequence of JSON tokens
    stdout,         \* what main has printed to stdout: a sequence of lines
    stderr,         \* what has been written to stderr: a sequence of messages
    exit_code,      \* exit status of the process, -1 while it runs
    history         \* the calls of process_hook_request made so far, with their verdicts

vars == <<pc, text, max_examples, file_path, tool_name, tool_input, input_data, ret,
          cls, stdin, stdout, stderr, exit_code, history>>

\* the variables of main and of the call history
io == <<stdin, stdout, stderr, exit_code, history>>

(***************************************************************************)
(* Bounds of the explored inputs.                                          *)
(***************************************************************************)
\* longest text given to has_emojis / get_emoji_examples
MaxLen == 3
\* largest max_examples given to get_emoji_examples
MaxK == 3
\* longest path given to is_monitored_file
MaxPathLen == 5
\* longest MultiEdit edit list
MaxEdits == 2
\* longest string in the content / new_string field of a request
MaxFieldLen == 2
\* longest sequence of process_hook_request calls
MaxCalls == 3

(***************************************************************************)
(* JSON / Python values.                                                   *)
(***************************************************************************)
Str(s) == [t |-> "str", v |-> s]
None == [t |-> "None", v |-> <<>>]
List(l) == [t |-> "list", v |-> l]
Dict(d) == [t |-> "dict", v |-> d]
Bool(b) == [t |-> "bool", v |-> b]
Num(n) == [t |-> "num", v |-> n]
Raise(e) == [t |-> "raise", v |-> e]
Idle == [t |-> "idle", v |-> <<>>]

EmptyDict == [k \in {} |-> None]

\* dict.get(key, default)
Get(d, key, default) == IF key \in DOMAIN d THEN d[key] ELSE default

\* Python truthiness of a value: None, "" and [] and {} are falsy
Truthy(x) ==
    CASE x.t = "None" -> FALSE
      [] x.t = "bool" -> x.v
      [] x.t = "num" -> x.v # 0
      [] x.t = "str" -> x.v # <<>>
      [] x.t = "list" -> x.v # <<>>
      [] x.t = "dict" -> DOMAIN x.v # {}
      [] OTHER -> TRUE

\* char in list
InList(c, l) == \E i \in 1..Len(l) : l[i] = c

(***************************************************************************)
(* Class attributes of EmojiChecker.                                       *)
(***************************************************************************)
\* the class body with the check mark U+2713 added to COLORFUL_SYMBOLS
ClassAttributes_WithCheckMark ==
    [ COLORFUL_SYMBOLS |->
          { \H2705, \H274C, \H2B50, \H2764, \H2728, \H2733, \H2734,
            \H2747, \H2757, \H2753, \H2755, \H2795, \H2796, \H2797, \H2713 },
      COLORFUL_EMOJI_PATTERN |->
          << <<\H1F600, \H1F64F>>, <<\H1F680, \H1F6FF>>, <<\H1F300, \H1F5FF>>,
             <<\H1F900, \H1F9FF>>, <<\H1F1E0, \H1F1FF>> >>,
      MONITORED_EXTENSIONS |->
          { <<46, 112, 121>>, <<46, 109, 100>>, <<46, 109, 100, 120>> } ]

\* the class body: the values the three attributes are bound to when the class is created
ClassAttributes ==
    [ COLORFUL_SYMBOLS |->
          { \H2705, \H274C, \H2B50, \H2764, \H2728, \H2733, \H2734,
            \H2747, \H2757, \H2753, \H2755, \H2795, \H2796, \H2797 },
      \* the five intervals of the character class of COLORFUL_EMOJI_PATTERN
      COLORFUL_EMOJI_PATTERN |->
          << <<\H1F600, \H1F64F>>, <<\H1F680, \H1F6FF>>, <<\H1F300, \H1F5FF>>,
             <<\H1F900, \H1F9FF>>, <<\H1F1E0, \H1F1FF>> >>,
      \* ".py", ".md", ".mdx"
      MONITORED_EXTENSIONS |->
          { <<46, 112, 121>>, <<46, 109, 100>>, <<46, 109, 100, 120>> } ]

\* cls.COLORFUL_SYMBOLS, as the methods read it
COLORFUL_SYMBOLS == cls.COLORFUL_SYMBOLS

\* the intervals of cls.COLORFUL_EMOJI_PATTERN, as the methods read them
PatternRanges == cls.COLORFUL_EMOJI_PATTERN

\* the state outside a call: the class as created, no process running, no call made
InitClass ==
    /\ cls = ClassAttributes
    /\ stdin = <<>>
    /\ stdout = <<>>
    /\ stderr = <<>>
    /\ exit_code = -1
    /\ history = <<>>

\* ClassMatch with the dingbats block U+2700-U+27BF added as a sixth range
ClassMatch_WithDingbats(c) ==
    \/ \E r \in 1..Len(PatternRanges) : PatternRanges[r][1] <= c /\ c <= PatternRanges[r][2]
    \/ (\H2700 <= c /\ c <= \H27BF)

\* one character matches the class [...]
ClassMatch(c) ==
    \E r \in 1..Len(PatternRanges) : PatternRanges[r][1] <= c /\ c <= PatternRanges[r][2]

\* end (inclusive) of the greedy match of [...]+ that starts at i, where s[i] matches
RECURSIVE GreedyEnd(_, _)
GreedyEnd(s, i) ==
    IF i < Len(s) /\ ClassMatch(s[i + 1]) THEN GreedyEnd(s, i + 1) ELSE i

\* COLORFUL_EMOJI_PATTERN.search(text) finds a match: tries each start position in turn
RECURSIVE PatternSearchFrom(_, _)
PatternSearchFrom(s, i) ==
    IF i > Len(s) THEN FALSE
    ELSE IF ClassMatch(s[i]) THEN TRUE
    ELSE PatternSearchFrom(s, i + 1)

PatternSearch(s) == PatternSearchFrom(s, 1)

\* COLORFUL_EMOJI_PATTERN.finditer(text): the non-overlapping matches, left to right
RECURSIVE PatternFindIterFrom(_, _)
PatternFindIterFrom(s, i) ==
    IF i > Len(s) THEN <<>>
    ELSE IF ClassMatch(s[i])
         THEN LET j == GreedyEnd(s, i)
              IN  <<SubSeq(s, i, j)>> \o PatternFindIterFrom(s, j + 1)
         ELSE PatternFindIterFrom(s, i + 1)

PatternFindIter(s) == PatternFindIterFrom(s, 1)

(***************************************************************************)
(* has_emojis                                                              *)
(***************************************************************************)
\* a symbol scan that counts a set character only when the variation selector follows it
RECURSIVE SymbolScan_NeedsSelector(_, _)
SymbolScan_NeedsSelector(s, i) ==
    IF i > Len(s) THEN FALSE
    ELSE IF s[i] \in COLORFUL_SYMBOLS /\ i < Len(s) /\ s[i + 1] = \HFE0F THEN TRUE
    ELSE SymbolScan_NeedsSelector(s, i + 1)

\* for char in text: if char in cls.COLORFUL_SYMBOLS: return True
RECURSIVE SymbolScan(_, _)
SymbolScan(s, i) ==
    IF i > Len(s) THEN FALSE
    ELSE IF s[i] \in COLORFUL_SYMBOLS THEN TRUE
    ELSE SymbolScan(s, i + 1)

\* "char in cls.COLORFUL_SYMBOLS" for an element of a list: a one-character string of the set
IsSymbolString(e) == e.t = "str" /\ Len(e.v) = 1 /\ e.v[1] \in COLORFUL_SYMBOLS

\* has_emojis on a list: the loop takes its elements for characters; an unhashable
\* element raises at the set test, and the pattern search raises on a list
RECURSIVE ListScan(_, _)
ListScan(l, i) ==
    IF i > Len(l) THEN Raise("TypeError")
    ELSE IF l[i].t \in {"list", "dict"} THEN Raise("TypeError")
    ELSE IF IsSymbolString(l[i]) THEN Bool(TRUE)
    ELSE ListScan(l, i + 1)

\* has_emojis that returns after the symbol loop without the range search
has_emojis_SetOnly(x) ==
    IF ~Truthy(x) THEN Bool(FALSE)
    ELSE IF x.t # "str" THEN Raise("TypeError")
    ELSE Bool(SymbolScan(x.v, 1))

\* has_emojis(text): a boolean, or the exception raised on a text that cannot be iterated
has_emojis(x) ==
    IF ~Truthy(x) THEN Bool(FALSE)
    ELSE IF x.t = "list" THEN ListScan(x.v, 1)
    ELSE IF x.t # "str" THEN Raise("TypeError")
    ELSE IF SymbolScan(x.v, 1) THEN Bool(TRUE)
    ELSE Bool(PatternSearch(x.v))

(***************************************************************************)
(* get_emoji_examples                                                      *)
(***************************************************************************)
\* first loop; returned = TRUE when the loop left the function through "return emojis"
RECURSIVE SymbolPass(_, _, _, _)
SymbolPass(s, i, emojis, max) ==
    IF i > Len(s) THEN [emojis |-> emojis, returned |-> FALSE]
    ELSE IF s[i] \in COLORFUL_SYMBOLS /\ ~InList(s[i], emojis)
         THEN LET e == Append(emojis, s[i])
              IN  IF Len(e) >= max THEN [emojis |-> e, returned |-> TRUE]
                  ELSE SymbolPass(s, i + 1, e, max)
         ELSE SymbolPass(s, i + 1, emojis, max)

\* the inner loop without the "char not in emojis" test
RECURSIVE MatchChars_NoDedup(_, _, _, _)
MatchChars_NoDedup(m, i, emojis, max) ==
    IF i > Len(m) THEN emojis
    ELSE LET e == Append(emojis, m[i])
         IN  IF Len(e) >= max THEN e ELSE MatchChars_NoDedup(m, i + 1, e, max)

\* for char in match.group(): ...
RECURSIVE MatchChars(_, _, _, _)
MatchChars(m, i, emojis, max) ==
    IF i > Len(m) THEN emojis
    ELSE IF ~InList(m[i], emojis)
         THEN LET e == Append(emojis, m[i])
              IN  IF Len(e) >= max THEN e ELSE MatchChars(m, i + 1, e, max)
         ELSE MatchChars(m, i + 1, emojis, max)

\* for match in cls.COLORFUL_EMOJI_PATTERN.finditer(text): ...
RECURSIVE MatchLoop(_, _, _, _)
MatchLoop(ms, j, emojis, max) ==
    IF j > Len(ms) THEN emojis
    ELSE LET e == MatchChars(ms[j], 1, emojis, max)
         IN  IF Len(e) >= max THEN e ELSE MatchLoop(ms, j + 1, e, max)

\* a second loop that collects nothing
RangePass_Nothing(s, emojis, max) == emojis

\* the second loop, entered while the list is below max_examples
RangePass(s, emojis, max) ==
    IF Len(emojis) < max THEN MatchLoop(PatternFindIter(s), 1, emojis, max) ELSE emojis

\* a single pass that collects set and range characters alike, in text order
RECURSIVE SinglePass(_, _, _, _)
SinglePass(s, i, emojis, max) ==
    IF i > Len(s) \/ Len(emojis) >= max THEN emojis
    ELSE IF (s[i] \in COLORFUL_SYMBOLS \/ ClassMatch(s[i])) /\ ~InList(s[i], emojis)
         THEN SinglePass(s, i + 1, Append(emojis, s[i]), max)
         ELSE SinglePass(s, i + 1, emojis, max)

Examples_SinglePass(s, max) == SinglePass(s, 1, <<>>, max)

\* get_emoji_examples on a str: the list of characters
Examples(s, max) ==
    LET p == SymbolPass(s, 1, <<>>, max)
    IN  IF p.returned THEN p.emojis ELSE RangePass(s, p.emojis, max)

\* get_emoji_examples on a list: the first loop collects the elements that are set
\* characters; when it ends below max_examples, finditer raises on a list
RECURSIVE ListPass(_, _, _, _)
ListPass(l, i, emojis, max) ==
    IF i > Len(l) THEN (IF Len(emojis) < max THEN Raise("TypeError") ELSE List(emojis))
    ELSE IF l[i].t \in {"list", "dict"} THEN Raise("TypeError")
    ELSE IF IsSymbolString(l[i]) /\ ~InList(l[i].v[1], emojis)
         THEN LET e == Append(emojis, l[i].v[1])
              IN  IF Len(e) >= max THEN List(e) ELSE ListPass(l, i + 1, e, max)
         ELSE ListPass(l, i + 1, emojis, max)

\* get_emoji_examples(text, max_examples): a list, or the exception raised; the keys of
\* a dict are field names, none of them a set character
get_emoji_examples(x, max) ==
    IF x.t = "str" THEN List(Examples(x.v, max))
    ELSE IF x.t = "list" THEN ListPass(x.v, 1, <<>>, max)
    ELSE IF x.t = "dict" /\ max <= 0 THEN List(<<>>)
    ELSE Raise("TypeError")

(***************************************************************************)
(* Inputs of the text functions.                                           *)
(***************************************************************************)
\* ordinary characters: "a" and space
Ordinary == { 97, 32 }
\* the monochrome lookalikes: check mark, multiplication sign, right arrow, bullet, en dash, em dash
Monochrome == { \H2713, \HD7, \H2192, \H2022, \H2013, \H2014 }
\* characters of the explored texts: ordinary, monochrome, two set symbols (green check, red
\* heart), the variation selector, two range characters (rocket, party popper)
TextAlphabet == Ordinary \cup Monochrome \cup { \H2705, \H2764, \HFE0F, \H1F680, \H1F389 }

SeqsUpTo(S, n) == UNION { [1..m -> S] : m \in 0..n }

Texts == SeqsUpTo(TextAlphabet, MaxLen)

InitText ==
    /\ pc = "call"
    /\ text \in { Str(s) : s \in Texts } \cup { None }
    /\ max_examples = 0
    /\ file_path = Idle
    /\ tool_name = Idle
    /\ tool_input = Idle
    /\ input_data = Idle
    /\ ret = Idle
    /\ InitClass

CallHasEmojis ==
    /\ pc = "call"
    /\ text # Idle
    /\ ret' = has_emojis(text)
    /\ pc' = "has_emojis"
    /\ UNCHANGED <<text, max_examples, file_path, tool_name, tool_input, input_data, cls, io>>

CallGetEmojiExamples ==
    /\ pc = "call"
    /\ text # Idle
    /\ \E k \in 0..MaxK :
        /\ max_examples' = k
        /\ ret' = get_emoji_examples(text, k)
    /\ pc' = "get_emoji_examples"
    /\ UNCHANGED <<text, file_path, tool_name, tool_input, input_data, cls, io>>

NextText == CallHasEmojis \/ CallGetEmojiExamples

SpecText == InitText /\ [][NextText]_vars

(***************************************************************************)
(* Properties of the text functions.                                       *)
(***************************************************************************)
\* a character the denylist set or one of the five ranges names
Disallowed(c) ==
    \/ c \in COLORFUL_SYMBOLS
    \/ (\H1F600 <= c /\ c <= \H1F64F)
    \/ (\H1F680 <= c /\ c <= \H1F6FF)
    \/ (\H1F300 <= c /\ c <= \H1F5FF)
    \/ (\H1F900 <= c /\ c <= \H1F9FF)
    \/ (\H1F1E0 <= c /\ c <= \H1F1FF)

HasDisallowedChar(s) == \E i \in 1..Len(s) : Disallowed(s[i])
HasSetChar(s) == \E i \in 1..Len(s) : s[i] \in COLORFUL_SYMBOLS
NoDuplicates(l) == \A i, j \in 1..Len(l) : l[i] = l[j] => i = j

\* C2: has_emojis(text) is true exactly when some character of the text is in the
\* denylist set or inside a denylist range; the empty and the None text give false.
C2_HasEmojisIffDisallowed ==
    pc = "has_emojis" =>
        ret = Bool(text.t = "str" /\ HasDisallowedChar(text.v))

\* C2 witness: a text with no set character is found by the range search, and a text
\* whose set character follows a range character is found by the set scan.
C2_Witness ==
    /\ pc = "has_emojis"
    /\ text.t = "str"
    /\ ret = Bool(TRUE)
    /\ ~HasSetChar(text.v)
    /\ Len(text.v) = MaxLen

\* C4 as claimed: for every max_examples >= 0 the list has at most max_examples
\* entries and no character twice.
C4_AtMostMaxNoDuplicates ==
    (pc = "get_emoji_examples" /\ ret.t = "list") =>
        (Len(ret.v) <= max_examples /\ NoDuplicates(ret.v))

\* C5: in the returned list every denylist-set character precedes every character
\* that only a range disallows.
C5_SetBeforeRange ==
    (pc = "get_emoji_examples" /\ ret.t = "list") =>
        \A i, j \in 1..Len(ret.v) :
            (ret.v[i] \in COLORFUL_SYMBOLS /\ ret.v[j] \notin COLORFUL_SYMBOLS) => i < j

\* C5 witness: the text starts with a range character, a set character follows, and
\* the list holds both.
C5_Witness ==
    /\ pc = "get_emoji_examples"
    /\ text.t = "str"
    /\ Len(text.v) >= 2
    /\ text.v[1] \notin COLORFUL_SYMBOLS /\ Disallowed(text.v[1])
    /\ text.v[2] \in COLORFUL_SYMBOLS
    /\ ret.t = "list"
    /\ InList(text.v[1], ret.v) /\ InList(text.v[2], ret.v)

\* the first k distinct disallowed characters of s, in order of first occurrence
RECURSIVE FirstDistinctDisallowed(_, _, _, _)
FirstDistinctDisallowed(s, i, acc, k) ==
    IF i > Len(s) \/ Len(acc) >= k THEN acc
    ELSE IF Disallowed(s[i]) /\ ~InList(s[i], acc)
         THEN FirstDistinctDisallowed(s, i + 1, Append(acc, s[i]), k)
         ELSE FirstDistinctDisallowed(s, i + 1, acc, k)

\* C6 as claimed: the list is the first max_examples distinct disallowed characters in
\* order of first occurrence in the text, set and range characters alike.
C6_FirstOccurrenceOrder ==
    (pc = "get_emoji_examples" /\ ret.t = "list" /\ max_examples >= 1) =>
        ret.v = FirstDistinctDisallowed(text.v, 1, <<>>, max_examples)

\* the variation selector U+FE0F
VariationSelector == \HFE0F
\* the red heart U+2764
RedHeart == \H2764

\* the text without its variation selectors
RECURSIVE WithoutSelectors(_)
WithoutSelectors(s) ==
    IF s = <<>> THEN <<>>
    ELSE IF Head(s) = VariationSelector THEN WithoutSelectors(Tail(s))
    ELSE <<Head(s)>> \o WithoutSelectors(Tail(s))

\* position of the first denylist-set character of s, 0 when there is none
FirstSetChar(s) ==
    IF HasSetChar(s) THEN CHOOSE i \in 1..Len(s) :
            s[i] \in COLORFUL_SYMBOLS /\ \A j \in 1..(i - 1) : s[j] \notin COLORFUL_SYMBOLS
    ELSE 0

\* C16: a denylist-set character is detected by has_emojis and reported by
\* get_emoji_examples with or without a following variation selector U+FE0F: both
\* results are those of the text with its selectors removed, a text holding a set
\* character is detected and its first set character is the first example; the
\* selector is never an example, and a text of selectors alone is not detected.
C16_VariationSelectorIgnored ==
    /\ (pc = "has_emojis" /\ text.t = "str") =>
            /\ ret = has_emojis(Str(WithoutSelectors(text.v)))
            /\ (HasSetChar(text.v) => ret = Bool(TRUE))
            /\ (WithoutSelectors(text.v) = <<>> => ret = Bool(FALSE))
    /\ (pc = "get_emoji_examples" /\ text.t = "str") =>
            /\ ret = get_emoji_examples(Str(WithoutSelectors(text.v)), max_examples)
            /\ ~InList(VariationSelector, ret.v)
            /\ (HasSetChar(text.v) /\ max_examples >= 1) =>
                    (ret.v # <<>> /\ ret.v[1] = text.v[FirstSetChar(text.v)])

\* C16 witness: the red heart without a selector after it is detected, in a text that
\* also holds a selector elsewhere.
C16_Witness ==
    /\ pc = "has_emojis"
    /\ text.t = "str"
    /\ Len(text.v) >= 2
    /\ text.v[Len(text.v)] = RedHeart
    /\ text.v[1] = VariationSelector
    /\ ret = Bool(TRUE)

\* the distinct denylist-set characters of s in order of first occurrence
RECURSIVE DistinctSetChars(_, _, _)
DistinctSetChars(s, i, acc) ==
    IF i > Len(s) THEN acc
    ELSE IF s[i] \in COLORFUL_SYMBOLS /\ ~InList(s[i], acc)
         THEN DistinctSetChars(s, i + 1, Append(acc, s[i]))
         ELSE DistinctSetChars(s, i + 1, acc)

\* the distinct denylist-range characters of s in order of first occurrence
RECURSIVE DistinctRangeChars(_, _, _)
DistinctRangeChars(s, i, acc) ==
    IF i > Len(s) THEN acc
    ELSE IF Disallowed(s[i]) /\ s[i] \notin COLORFUL_SYMBOLS /\ ~InList(s[i], acc)
         THEN DistinctRangeChars(s, i + 1, Append(acc, s[i]))
         ELSE DistinctRangeChars(s, i + 1, acc)

SetThenRange(s) == DistinctSetChars(s, 1, <<>>) \o DistinctRangeChars(s, 1, <<>>)

Min(a, b) == IF a <= b THEN a ELSE b

DistinctDisallowed(s) == { s[i] : i \in { j \in 1..Len(s) : Disallowed(s[j]) } }

MONITORED_EXTENSIONS == cls.MONITORED_EXTENSIONS

\* str.lower() on the characters of the explored paths (ASCII letters)
LowerChar(c) == IF 65 <= c /\ c <= 90 THEN c + 32 ELSE c
Lower(s) == [i \in 1..Len(s) |-> LowerChar(s[i])]

\* Path(file_path) splits on "/" and drops the empty and the "." components
RECURSIVE PathPartsFrom(_, _, _)
PathPartsFrom(s, i, cur) ==
    LET keep == IF cur = <<>> \/ cur = <<46>> THEN <<>> ELSE <<cur>>
    IN  IF i > Len(s) THEN keep
        ELSE IF s[i] = 47 THEN keep \o PathPartsFrom(s, i + 1, <<>>)
        ELSE PathPartsFrom(s, i + 1, Append(cur, s[i]))

\* Path(file_path).name: the last component, "" when there is none
PathName(s) ==
    LET parts == PathPartsFrom(s, 1, <<>>)
    IN  IF parts = <<>> THEN <<>> ELSE parts[Len(parts)]

\* name.rfind("."), as a position from 1; 0 when there is no dot
RECURSIVE RFindDot(_, _)
RFindDot(name, i) ==
    IF i = 0 THEN 0
    ELSE IF name[i] = 46 THEN i
    ELSE RFindDot(name, i - 1)

\* Path(file_path).suffix
PathSuffix(s) ==
    LET name == PathName(s)
        i == RFindDot(name, Len(name))
    IN  IF 1 < i /\ i < Len(name) THEN SubSeq(name, i, Len(name)) ELSE <<>>

\* is_monitored_file that compares the suffix without lower()
is_monitored_file_CaseSensitive(x) ==
    IF ~Truthy(x) THEN Bool(FALSE)
    ELSE IF x.t # "str" THEN Raise("TypeError")
    ELSE Bool(PathSuffix(x.v) \in MONITORED_EXTENSIONS)

\* is_monitored_file(file_path): a boolean, or the exception Path() raises on a non-str
is_monitored_file(x) ==
    IF ~Truthy(x) THEN Bool(FALSE)
    ELSE IF x.t # "str" THEN Raise("TypeError")
    ELSE Bool(Lower(PathSuffix(x.v)) \in MONITORED_EXTENSIONS)

\* characters of the explored paths: . / p y P m d x
PathAlphabet == { 46, 47, 112, 121, 80, 109, 100, 120 }

InitPath ==
    /\ pc = "call"
    /\ file_path \in { Str(s) : s \in SeqsUpTo(PathAlphabet, MaxPathLen) } \cup { None }
    /\ text = Idle
    /\ max_examples = 0
    /\ tool_name = Idle
    /\ tool_input = Idle
    /\ input_data = Idle
    /\ ret = Idle
    /\ InitClass

CallIsMonitoredFile ==
    /\ pc = "call"
    /\ file_path # Idle
    /\ ret' = is_monitored_file(file_path)
    /\ pc' = "is_monitored_file"
    /\ UNCHANGED <<text, max_examples, file_path, tool_name, tool_input, input_data, cls, io>>

NextPath == CallIsMonitoredFile

SpecPath == InitPath /\ [][NextPath]_vars

\* the extensions .py, .md, .mdx in lower case, as the claim lists them
ClaimedExtensions == { <<46, 112, 121>>, <<46, 109, 100>>, <<46, 109, 100, 120>> }

\* the final extension of the path s: the last component of s from its last dot on,
\* the dot neither first nor last in the component (a set with at most one element)
FinalExtension(s) ==
    LET name == PathName(s)
    IN  { SubSeq(name, i, Len(name)) :
            i \in { d \in 2..(Len(name) - 1) :
                      name[d] = 46 /\ \A k \in (d + 1)..Len(name) : name[k] # 46 } }

\* C8: is_monitored_file(path) is true exactly when the final extension of the path,
\* letter case ignored, is .py, .md or .mdx; the empty and the None path give false.
C8_MonitoredIffExtension ==
    pc = "is_monitored_file" =>
        ret = Bool( /\ file_path.t = "str"
                    /\ \E e \in FinalExtension(file_path.v) : Lower(e) \in ClaimedExtensions )

\* C8 witness: a path with an upper-case letter in its extension is monitored.
C8_Witness ==
    /\ pc = "is_monitored_file"
    /\ ret = Bool(TRUE)
    /\ \E i \in 1..Len(file_path.v) : file_path.v[i] = 80

(***************************************************************************)
(* extract_content_from_tool_input                                         *)
(***************************************************************************)
\* "Write", "Edit", "MultiEdit" and, as a tool that is not checked, "Read"
WriteName == <<87, 114, 105, 116, 101>>
EditName == <<69, 100, 105, 116>>
MultiEditName == <<77, 117, 108, 116, 105, 69, 100, 105, 116>>
ReadName == <<82, 101, 97, 100>>

\* " ".join(content_parts)
RECURSIVE JoinFrom(_, _)
JoinFrom(parts, i) ==
    IF i > Len(parts) THEN <<>>
    ELSE IF i = 1 THEN parts[1] \o JoinFrom(parts, 2)
    ELSE <<32>> \o parts[i] \o JoinFrom(parts, i + 1)

Join(parts) == JoinFrom(parts, 1)

\* the loop without the test "if new_string": every edit adds a part
RECURSIVE EditLoop_KeepEmpty(_, _, _)
EditLoop_KeepEmpty(edits, i, content_parts) ==
    IF i > Len(edits) THEN List(content_parts)
    ELSE IF edits[i].t # "dict" THEN Raise("AttributeError")
    ELSE LET new_string == Get(edits[i].v, "new_string", Str(<<>>))
         IN  EditLoop_KeepEmpty(edits, i + 1,
                 Append(content_parts, IF new_string.t = "str" THEN new_string ELSE Str(<<>>)))

\* the loop with edit["new_string"] in place of edit.get("new_string", "")
RECURSIVE EditLoop_Subscript(_, _, _)
EditLoop_Subscript(edits, i, content_parts) ==
    IF i > Len(edits) THEN List(content_parts)
    ELSE IF edits[i].t # "dict" THEN Raise("AttributeError")
    ELSE IF "new_string" \notin DOMAIN edits[i].v THEN Raise("KeyError")
    ELSE LET new_string == edits[i].v["new_string"]
         IN  IF Truthy(new_string)
             THEN EditLoop_Subscript(edits, i + 1, Append(content_parts, new_string))
             ELSE EditLoop_Subscript(edits, i + 1, content_parts)

\* the loop "for edit in edits": content_parts after the edits from i on, or the
\* exception raised by edit.get on an edit that is no dict
RECURSIVE EditLoop(_, _, _)
EditLoop(edits, i, content_parts) ==
    IF i > Len(edits) THEN List(content_parts)
    ELSE IF edits[i].t # "dict" THEN Raise("AttributeError")
    ELSE LET new_string == Get(edits[i].v, "new_string", Str(<<>>))
         IN  IF Truthy(new_string)
             THEN EditLoop(edits, i + 1, Append(content_parts, new_string))
             ELSE EditLoop(edits, i + 1, content_parts)

\* a MultiEdit branch that keeps the last part alone instead of joining the parts
MultiEditContent_LastEdit(d) ==
    LET edits == Get(d, "edits", List(<<>>))
    IN  IF edits.t \in {"str", "dict"} /\ ~Truthy(edits) THEN Str(<<>>)
        ELSE IF edits.t = "str" \/ edits.t = "dict" THEN Raise("AttributeError")
        ELSE IF edits.t # "list" THEN Raise("TypeError")
        ELSE LET parts == EditLoop(edits.v, 1, <<>>)
             IN  IF parts.t = "raise" THEN parts
                 ELSE IF \E k \in 1..Len(parts.v) : parts.v[k].t # "str" THEN Raise("TypeError")
                 ELSE IF parts.v = <<>> THEN Str(<<>>)
                 ELSE parts.v[Len(parts.v)]

\* the MultiEdit branch: iterate the edits, then join the parts
MultiEditContent(d) ==
    LET edits == Get(d, "edits", List(<<>>))
    IN  IF edits.t \in {"str", "dict"} /\ ~Truthy(edits) THEN Str(<<>>)
        ELSE IF edits.t = "str" \/ edits.t = "dict" THEN Raise("AttributeError")
        ELSE IF edits.t # "list" THEN Raise("TypeError")
        ELSE LET parts == EditLoop(edits.v, 1, <<>>)
             IN  IF parts.t = "raise" THEN parts
                 ELSE IF \E k \in 1..Len(parts.v) : parts.v[k].t # "str" THEN Raise("TypeError")
                 ELSE Str(Join([k \in 1..Len(parts.v) |-> parts.v[k].v]))

\* an extraction that falls back on old_string when an Edit has no new text
extract_content_from_tool_input_OldString(name, ti) ==
    IF name \in { Str(WriteName), Str(EditName), Str(MultiEditName) } /\ ti.t # "dict"
    THEN Raise("AttributeError")
    ELSE IF name = Str(WriteName) THEN Get(ti.v, "content", Str(<<>>))
    ELSE IF name = Str(EditName)
         THEN LET n == Get(ti.v, "new_string", Str(<<>>))
              IN  IF Truthy(n) THEN n ELSE Get(ti.v, "old_string", Str(<<>>))
    ELSE IF name = Str(MultiEditName) THEN MultiEditContent(ti.v)
    ELSE Str(<<>>)

\* extract_content_from_tool_input(tool_name, tool_input): the content (whatever value
\* the field holds), or the exception raised
extract_content_from_tool_input(name, ti) ==
    IF name \in { Str(WriteName), Str(EditName), Str(MultiEditName) } /\ ti.t # "dict"
    THEN Raise("AttributeError")
    ELSE IF name = Str(WriteName) THEN Get(ti.v, "content", Str(<<>>))
    ELSE IF name = Str(EditName) THEN Get(ti.v, "new_string", Str(<<>>))
    ELSE IF name = Str(MultiEditName) THEN MultiEditContent(ti.v)
    ELSE Str(<<>>)

(***************************************************************************)
(* process_hook_request                                                    *)
(***************************************************************************)
\* the default of get_emoji_examples(text, max_examples=3)
DefaultMaxExamples == 3

\* "detected"
Detected == <<100, 101, 116, 101, 99, 116, 101, 100>>

\* an endswith that ignores letter case, as the suffix test of is_monitored_file does
EndsWithPy_AnyCase(s) ==
    Len(s) >= 3 /\ Lower(SubSeq(s, Len(s) - 2, Len(s))) = <<46, 112, 121>>

\* file_path.endswith(".py")
EndsWithPy(s) == Len(s) >= 3 /\ SubSeq(s, Len(s) - 2, Len(s)) = <<46, 112, 121>>

\* the fixed text of the f-string of permissionDecisionReason, as code points:
\* the cross mark and "Colorful emojis detected in "
ReasonHead ==
    <<\H274C, 32, 67, 111, 108, 111, 114, 102, 117, 108, 32, 101, 109, 111, 106, 105, 115, 32,
      100, 101, 116, 101, 99, 116, 101, 100, 32, 105, 110, 32>>

\* " file '"
ReasonFile == <<32, 102, 105, 108, 101, 32, 39>>

\* "': "
ReasonSep == <<39, 58, 32>>

\* two newlines and "Python and Markdown files should not contain ... and try again."
ReasonTail ==
    <<10, 10, 80, 121, 116, 104, 111, 110, 32, 97, 110, 100, 32, 77, 97, 114, 107, 100, 111,
      119, 110, 32, 102, 105, 108, 101, 115, 32, 115, 104, 111, 117, 108, 100, 32, 110, 111,
      116, 32, 99, 111, 110, 116, 97, 105, 110, 32, 99, 111, 108, 111, 114, 102, 117, 108, 32,
      101, 109, 111, 106, 105, 115, 32, 102, 111, 114, 32, 112, 114, 111, 102, 101, 115, 115,
      105, 111, 110, 97, 108, 32, 99, 111, 100, 101, 32, 115, 116, 97, 110, 100, 97, 114, 100,
      115, 46, 32, 83, 105, 109, 112, 108, 101, 32, 115, 121, 109, 98, 111, 108, 115, 32, 108,
      105, 107, 101, 32, \H2713, 32, \HD7, 32, \H2192, 32, \H2022, 32, 97, 114, 101, 32, 97,
      108, 108, 111, 119, 101, 100, 46, 32, 80, 108, 101, 97, 115, 101, 32, 114, 101, 109, 111,
      118, 101, 32, 116, 104, 101, 32, 99, 111, 108, 111, 114, 102, 117, 108, 32, 101, 109,
      111, 106, 105, 115, 32, 97, 110, 100, 32, 116, 114, 121, 32, 97, 103, 97, 105, 110, 46>>

\* the characters of the label
LabelChars(file_type) ==
    IF file_type = "Python" THEN <<80, 121, 116, 104, 111, 110>>
    ELSE <<77, 97, 114, 107, 100, 111, 119, 110>>

\* the f-string
Reason(file_type, path, examples_str) ==
    ReasonHead \o LabelChars(file_type) \o ReasonFile \o path \o ReasonSep
        \o examples_str \o ReasonTail

\* the deny record; next to the reason it keeps the parts the f-string is assembled from
Deny(file_type, path, examples_str) ==
    [t |-> "deny",
     v |-> [hookEventName |-> "PreToolUse",
            permissionDecision |-> "deny",
            permissionDecisionReason |-> Reason(file_type, path, examples_str),
            file_type |-> file_type,
            file_path |-> path,
            examples_str |-> examples_str]]

\* a denial that lists every example found, without the default cap
DenyFor_NoCap(path, content) ==
    LET emoji_examples == get_emoji_examples(content, 10)
    IN  IF emoji_examples.t = "raise" THEN emoji_examples
        ELSE LET examples_str == IF emoji_examples.v # <<>>
                                 THEN Join([k \in 1..Len(emoji_examples.v) |-> <<emoji_examples.v[k]>>])
                                 ELSE Detected
                 file_type == IF EndsWithPy(path.v) THEN "Python" ELSE "Markdown"
             IN  Deny(file_type, path.v, examples_str)

\* the body of "if cls.has_emojis(content):"
DenyFor(path, content) ==
    LET emoji_examples == get_emoji_examples(content, DefaultMaxExamples)
    IN  IF emoji_examples.t = "raise" THEN emoji_examples
        ELSE LET examples_str == IF emoji_examples.v # <<>>
                                 THEN Join([k \in 1..Len(emoji_examples.v) |-> <<emoji_examples.v[k]>>])
                                 ELSE Detected
                 file_type == IF EndsWithPy(path.v) THEN "Python" ELSE "Markdown"
             IN  Deny(file_type, path.v, examples_str)

\* the checks in another order: the content is extracted and classified first, the
\* file kind is looked at afterwards
CheckFile_ExtractFirst(name, ti) ==
    IF ti.t # "dict" THEN Raise("AttributeError")
    ELSE LET path == Get(ti.v, "file_path", Str(<<>>))
             content == extract_content_from_tool_input(name, ti)
             found == IF content.t = "raise" THEN content ELSE has_emojis(content)
             monitored == is_monitored_file(path)
         IN  IF found.t = "raise" THEN found
             ELSE IF monitored.t = "raise" THEN monitored
             ELSE IF ~monitored.v THEN None
             ELSE IF found.v THEN DenyFor(path, content)
             ELSE None

\* the checks after the tool-name test
CheckFile(name, ti) ==
    IF ti.t # "dict" THEN Raise("AttributeError")
    ELSE LET path == Get(ti.v, "file_path", Str(<<>>))
             monitored == is_monitored_file(path)
         IN  IF monitored.t = "raise" THEN monitored
             ELSE IF ~monitored.v THEN None
             ELSE LET content == extract_content_from_tool_input(name, ti)
                      found == IF content.t = "raise" THEN content ELSE has_emojis(content)
                  IN  IF found.t = "raise" THEN found
                      ELSE IF found.v THEN DenyFor(path, content)
                      ELSE None

\* process_hook_request whose tool list holds "Write" alone
process_hook_request_WriteOnly(x) ==
    IF x.t # "dict" THEN Raise("AttributeError")
    ELSE LET name == Get(x.v, "tool_name", Str(<<>>))
             ti == Get(x.v, "tool_input", Dict(EmptyDict))
         IN  IF name \notin { Str(WriteName) } THEN None
             ELSE CheckFile(name, ti)

\* process_hook_request(input_data): None (allow), the deny record, or the exception raised
process_hook_request(x) ==
    IF x.t # "dict" THEN Raise("AttributeError")
    ELSE LET name == Get(x.v, "tool_name", Str(<<>>))
             ti == Get(x.v, "tool_input", Dict(EmptyDict))
         IN  IF name \notin { Str(WriteName), Str(EditName), Str(MultiEditName) } THEN None
             ELSE CheckFile(name, ti)

(***************************************************************************)
(* Inputs of extract_content_from_tool_input and process_hook_request.     *)
(***************************************************************************)
\* a key the dict does not hold
Missing == [t |-> "missing", v |-> <<>>]

\* the dict that holds the keys of f whose value is not Missing
MkDict(f) == Dict([k \in { k \in DOMAIN f : f[k] # Missing } |-> f[k]])

\* characters of the payload strings: "a", check mark, right arrow, green check, rocket
FieldAlphabet == { 97, \H2713, \H2192, \H2705, \H1F680 }

\* texts of the test scenarios, shortened: four colorful emojis in a row, and check
\* mark, arrow and bullet mixed with a party popper and a rocket
ScenarioTexts ==
    { <<\H1F680, \H2705, \H274C, \H2B50>>,
      <<\H2713, 32, \H2192, 32, \H2022, 32, \H1F389, 32, \H1F680>> }

\* values of the content and new_string fields
FieldOpts ==
    { Missing, None } \cup { Str(s) : s \in SeqsUpTo(FieldAlphabet, MaxFieldLen) \cup ScenarioTexts }

\* values of a field the tool at hand does not read
OtherFieldOpts == { Missing, Str(<<\H1F680>>) }

\* values of new_string in an edit of a MultiEdit
EditFieldOpts == { Missing, None, Str(<<>>) } \cup { Str(<<c>>) : c \in FieldAlphabet }

\* "", "a.py", "A.PY", "a.md", "a.mdx", "a.txt", "a.py/", ".py"
PathOpts ==
    { Missing, None, Str(<<>>),
      Str(<<97, 46, 112, 121>>), Str(<<65, 46, 80, 89>>), Str(<<97, 46, 109, 100>>),
      Str(<<97, 46, 109, 100, 120>>), Str(<<97, 46, 116, 120, 116>>),
      Str(<<97, 46, 112, 121, 47>>), Str(<<46, 112, 121>>) }

ToolNameOpts == { Missing, Str(WriteName), Str(EditName), Str(MultiEditName), Str(ReadName) }

EditLists == SeqsUpTo({ MkDict([new_string |-> n]) : n \in EditFieldOpts }, MaxEdits)

ToolInputs ==
    { MkDict([file_path |-> p, content |-> c, new_string |-> n, edits |-> Missing]) :
        p \in PathOpts, c \in FieldOpts, n \in OtherFieldOpts }
    \cup
    { MkDict([file_path |-> p, content |-> c, new_string |-> n, edits |-> Missing]) :
        p \in PathOpts, c \in OtherFieldOpts, n \in FieldOpts }
    \cup
    { MkDict([file_path |-> p, content |-> Missing, new_string |-> Missing, edits |-> List(es)]) :
        p \in PathOpts, es \in EditLists }

Requests ==
    { MkDict([tool_name |-> n, tool_input |-> ti]) :
        n \in ToolNameOpts, ti \in ToolInputs \cup { Missing } }

Init ==
    /\ pc = "call"
    /\ input_data \in Requests
    /\ text = Idle
    /\ max_examples = 0
    /\ file_path = Idle
    /\ tool_name = Idle
    /\ tool_input = Idle
    /\ ret = Idle
    /\ InitClass

CallProcessHookRequest ==
    /\ pc = "call"
    /\ input_data # Idle
    /\ ret' = process_hook_request(input_data)
    /\ pc' = "process_hook_request"
    /\ UNCHANGED <<text, max_examples, file_path, tool_name, tool_input, input_data, cls, io>>

Next == CallProcessHookRequest

Spec == Init /\ [][Next]_vars

InitExtract ==
    /\ pc = "call"
    /\ tool_name \in ToolNameOpts \ { Missing }
    /\ tool_input \in ToolInputs
    /\ text = Idle
    /\ max_examples = 0
    /\ file_path = Idle
    /\ input_data = Idle
    /\ ret = Idle
    /\ InitClass

CallExtractContent ==
    /\ pc = "call"
    /\ tool_input # Idle
    /\ ret' = extract_content_from_tool_input(tool_name, tool_input)
    /\ pc' = "extract_content_from_tool_input"
    /\ UNCHANGED <<text, max_examples, file_path, tool_name, tool_input, input_data, cls, io>>

NextExtract == CallExtractContent

SpecExtract == InitExtract /\ [][NextExtract]_vars

\* the text functions and the request handler together
InitTextRequest == InitText \/ Init
NextTextRequest == NextText \/ Next
SpecTextRequest == InitTextRequest /\ [][NextTextRequest]_vars

(***************************************************************************)
(* Requests with malformed fields: present, but not of the expected type.  *)
(***************************************************************************)
\* values of content and new_string: null, 0, 5, [], ["\u2705"], three symbols in a
\* list, {}, "" and a rocket
MalformedFieldOpts ==
    { None, Num(0), Num(5), List(<<>>), List(<<Str(<<\H2705>>)>>),
      List(<<Str(<<\H2705>>), Str(<<\H274C>>), Str(<<\H2B50>>)>>),
      Dict(EmptyDict), Str(<<>>), Str(<<\H1F680>>) }

\* elements of edits: null, "a", [], and mappings whose new_string is missing, null, 0,
\* 5, a green check, "a" or a list
MalformedEditOpts ==
    { None, Str(<<97>>), List(<<>>) } \cup
    { MkDict([new_string |-> n]) :
        n \in { Missing, None, Num(0), Num(5), Str(<<\H2705>>), Str(<<97>>),
                List(<<Str(<<\H2705>>)>>) } }

\* values of edits: missing, null, 5, "", "a", {} and lists of the elements above
MalformedEdits ==
    { Missing, None, Num(5), Str(<<>>), Str(<<97>>), Dict(EmptyDict) } \cup
    { List(l) : l \in SeqsUpTo(MalformedEditOpts, MaxEdits) }

\* missing, null, 0, 5, "a.py", "a.md", "a.txt"
MalformedPathOpts ==
    { Missing, None, Num(0), Num(5), Str(<<97, 46, 112, 121>>), Str(<<97, 46, 109, 100>>),
      Str(<<97, 46, 116, 120, 116>>) }

\* tool_input: a mapping with such fields, or no mapping at all
MalformedToolInputs ==
    { MkDict([file_path |-> p, content |-> c, new_string |-> n, edits |-> Missing]) :
        p \in MalformedPathOpts, c \in MalformedFieldOpts, n \in MalformedFieldOpts }
    \cup
    { MkDict([file_path |-> p, content |-> Missing, new_string |-> Missing, edits |-> e]) :
        p \in MalformedPathOpts, e \in MalformedEdits }
    \cup { None, Str(<<97>>), List(<<>>) }

MalformedToolNameOpts == ToolNameOpts \cup { Num(5), None }

MalformedRequests ==
    { MkDict([tool_name |-> n, tool_input |-> ti]) :
        n \in MalformedToolNameOpts, ti \in MalformedToolInputs }

\* tool_name and tool_input hold what process_hook_request reads from the request, so
\* that extraction can be called on the same pair on its own
InitMalformed ==
    /\ pc = "call"
    /\ input_data \in MalformedRequests
    /\ tool_name = Get(input_data.v, "tool_name", Str(<<>>))
    /\ tool_input = Get(input_data.v, "tool_input", Dict(EmptyDict))
    /\ text = Idle
    /\ max_examples = 0
    /\ file_path = Idle
    /\ ret = Idle
    /\ InitClass

NextMalformed == CallExtractContent \/ CallProcessHookRequest

SpecMalformed == InitMalformed /\ [][NextMalformed]_vars

(***************************************************************************)
(* Requests that carry every payload field at once, old_string included.   *)
(***************************************************************************)
\* values of content, new_string and old_string: absent, "a", a rocket
PayloadOpts == { Missing, Str(<<97>>), Str(<<\H1F680>>) }

\* an edit: old_string absent or a rocket, new_string as above
FullEdits ==
    { MkDict([old_string |-> o, new_string |-> n]) :
        o \in { Missing, Str(<<\H1F680>>) }, n \in PayloadOpts }

\* "a.py", "a.md", "a.txt"
FullPathOpts ==
    { Str(<<97, 46, 112, 121>>), Str(<<97, 46, 109, 100>>), Str(<<97, 46, 116, 120, 116>>) }

FullToolInputs ==
    { MkDict([file_path |-> p, content |-> c, new_string |-> n, old_string |-> o, edits |-> e]) :
        p \in FullPathOpts, c \in PayloadOpts, n \in PayloadOpts, o \in PayloadOpts,
        e \in { Missing } \cup { List(l) : l \in SeqsUpTo(FullEdits, MaxEdits) } }

FullRequests ==
    { MkDict([tool_name |-> n, tool_input |-> ti]) :
        n \in ToolNameOpts \ { Missing }, ti \in FullToolInputs }

InitFields ==
    /\ pc = "call"
    /\ input_data \in FullRequests
    /\ text = Idle
    /\ max_examples = 0
    /\ file_path = Idle
    /\ tool_name = Idle
    /\ tool_input = Idle
    /\ ret = Idle
    /\ InitClass

SpecFields == InitFields /\ [][Next]_vars

(***************************************************************************)
(* MultiEdit requests whose edits hold texts of several characters.        *)
(***************************************************************************)
\* values of new_string in an edit: absent, null, "", "a", "a b", check mark and arrow
\* around a space, a green check, "a" around a green check, rocket and party popper, a
\* red heart with its variation selector, the variation selector alone
EditTextOpts ==
    { Missing, None, Str(<<>>), Str(<<97>>), Str(<<97, 32, 98>>),
      Str(<<\H2713, 32, \H2192>>), Str(<<\H2705>>), Str(<<97, \H2705, 97>>),
      Str(<<\H1F680, \H1F389>>), Str(<<\H2764, \HFE0F>>), Str(<<\HFE0F>>) }

\* "a.py", "A.PY", "a.md", "a.txt"
MultiEditPathOpts ==
    { Str(<<97, 46, 112, 121>>), Str(<<65, 46, 80, 89>>), Str(<<97, 46, 109, 100>>),
      Str(<<97, 46, 116, 120, 116>>) }

MultiEditRequests ==
    { MkDict([tool_name |-> Str(MultiEditName),
              tool_input |-> MkDict([file_path |-> p, edits |-> List(es)])]) :
        p \in MultiEditPathOpts,
        es \in SeqsUpTo({ MkDict([new_string |-> n]) : n \in EditTextOpts }, MaxEdits) }

InitMultiEdit ==
    /\ pc = "call"
    /\ input_data \in MultiEditRequests
    /\ text = Idle
    /\ max_examples = 0
    /\ file_path = Idle
    /\ tool_name = Idle
    /\ tool_input = Idle
    /\ ret = Idle
    /\ InitClass

SpecMultiEdit == InitMultiEdit /\ [][Next]_vars

(***************************************************************************)
(* Sequences of process_hook_request calls on one EmojiChecker class.      *)
(***************************************************************************)
\* the requests of the sequences: Write of a green check to a.py, Write of "a" to a.py,
\* Edit of a rocket into a.md, MultiEdit of a green check and a rocket into a.py, Write of
\* a green check to a.txt, and a Read
CallRequests ==
    { MkDict([tool_name |-> Str(WriteName),
              tool_input |-> MkDict([file_path |-> Str(<<97, 46, 112, 121>>),
                                     content |-> Str(<<\H2705>>)])]),
      MkDict([tool_name |-> Str(WriteName),
              tool_input |-> MkDict([file_path |-> Str(<<97, 46, 112, 121>>),
                                     content |-> Str(<<97>>)])]),
      MkDict([tool_name |-> Str(EditName),
              tool_input |-> MkDict([file_path |-> Str(<<97, 46, 109, 100>>),
                                     new_string |-> Str(<<\H1F680>>)])]),
      MkDict([tool_name |-> Str(MultiEditName),
              tool_input |-> MkDict([file_path |-> Str(<<97, 46, 112, 121>>),
                                     edits |-> List(<<MkDict([new_string |-> Str(<<\H2705>>)]),
                                                      MkDict([new_string |-> Str(<<\H1F680>>)])>>)])]),
      MkDict([tool_name |-> Str(WriteName),
              tool_input |-> MkDict([file_path |-> Str(<<97, 46, 116, 120, 116>>),
                                     content |-> Str(<<\H2705>>)])]),
      MkDict([tool_name |-> Str(ReadName),
              tool_input |-> MkDict([file_path |-> Str(<<97, 46, 112, 121>>)])]) }

InitCalls ==
    /\ pc = "call"
    /\ input_data = Idle
    /\ text = Idle
    /\ max_examples = 0
    /\ file_path = Idle
    /\ tool_name = Idle
    /\ tool_input = Idle
    /\ ret = Idle
    /\ InitClass

\* a call that drops the characters it reported from the class's denylist set
CallAgain_ReportOnce ==
    /\ pc \in {"call", "process_hook_request"}
    /\ Len(history) < MaxCalls
    /\ \E req \in CallRequests :
        /\ input_data' = req
        /\ ret' = process_hook_request(req)
        /\ history' = Append(history, [request |-> req, verdict |-> ret'])
        /\ cls' = IF ret'.t = "deny"
                  THEN [cls EXCEPT !.COLORFUL_SYMBOLS =
                           @ \ { ret'.v.examples_str[i] : i \in 1..Len(ret'.v.examples_str) }]
                  ELSE cls
    /\ pc' = "process_hook_request"
    /\ UNCHANGED <<text, max_examples, file_path, tool_name, tool_input,
                   stdin, stdout, stderr, exit_code>>

\* one more call of process_hook_request on the same class: the method reads the class
\* attributes and assigns none of them
CallAgain ==
    /\ pc \in {"call", "process_hook_request"}
    /\ Len(history) < MaxCalls
    /\ \E req \in CallRequests :
        /\ input_data' = req
        /\ ret' = process_hook_request(req)
        /\ history' = Append(history, [request |-> req, verdict |-> ret'])
    /\ pc' = "process_hook_request"
    /\ UNCHANGED <<text, max_examples, file_path, tool_name, tool_input, cls,
                   stdin, stdout, stderr, exit_code>>

NextCalls == CallAgain

SpecCalls == InitCalls /\ [][NextCalls]_vars

(***************************************************************************)
(* JSON text: json.load on the way in, json.dumps on the way out.  A text  *)
(* is a sequence of tokens; a string token holds the characters between    *)
(* the quotes, escapes and all.                                            *)
(***************************************************************************)
Punct(p) == [t |-> "punct", v |-> p]
StringToken(s) == [t |-> "string", v |-> s]
NumberToken(n) == [t |-> "number", v |-> n]
Literal(w) == [t |-> "literal", v |-> w]
\* a run of characters that starts no JSON value, like the word "invalid"
Word(w) == [t |-> "word", v |-> w]

IsPunct(tk, p) == tk.t = "punct" /\ tk.v = p

\* the keys of the requests and of the output, with their characters; the dicts of this
\* module are keyed by these names
KeyChars ==
    [ tool_name |-> <<116, 111, 111, 108, 95, 110, 97, 109, 101>>,
      tool_input |-> <<116, 111, 111, 108, 95, 105, 110, 112, 117, 116>>,
      file_path |-> <<102, 105, 108, 101, 95, 112, 97, 116, 104>>,
      content |-> <<99, 111, 110, 116, 101, 110, 116>>,
      old_string |-> <<111, 108, 100, 95, 115, 116, 114, 105, 110, 103>>,
      new_string |-> <<110, 101, 119, 95, 115, 116, 114, 105, 110, 103>>,
      edits |-> <<101, 100, 105, 116, 115>>,
      hookSpecificOutput |-> <<104, 111, 111, 107, 83, 112, 101, 99, 105, 102, 105, 99, 79, 117, 116, 112, 117, 116>>,
      hookEventName |-> <<104, 111, 111, 107, 69, 118, 101, 110, 116, 78, 97, 109, 101>>,
      permissionDecision |-> <<112, 101, 114, 109, 105, 115, 115, 105, 111, 110, 68, 101, 99, 105, 115, 105, 111, 110>>,
      permissionDecisionReason |-> <<112, 101, 114, 109, 105, 115, 115, 105, 111, 110, 68, 101, 99, 105, 115, 105, 111, 110, 82, 101, 97, 115, 111, 110>> ]

\* the keys in the order the dict literals of the code and of the tests insert them
KeyOrder ==
    <<"tool_name", "tool_input", "file_path", "content", "old_string", "new_string",
      "edits", "hookSpecificOutput", "hookEventName", "permissionDecision", "permissionDecisionReason">>

\* the name of the key with these characters; keys outside the table share one name
KeyName(s) ==
    IF \E k \in DOMAIN KeyChars : KeyChars[k] = s
    THEN CHOOSE k \in DOMAIN KeyChars : KeyChars[k] = s
    ELSE "other"

\* one lower-case hexadecimal digit, and the four of a \uXXXX escape
HexDigit(d) == IF d < 10 THEN 48 + d ELSE 87 + d
Hex4(n) ==
    <<HexDigit(n \div 4096), HexDigit((n \div 256) % 16), HexDigit((n \div 16) % 16), HexDigit(n % 16)>>

\* json.dumps with ensure_ascii on one character: quote and backslash get a backslash,
\* the control characters their letter, every other character outside " ".."~" becomes
\* \uXXXX, one above the BMP a surrogate pair
EscapeChar(c) ==
    IF c = 34 THEN <<92, 34>>
    ELSE IF c = 92 THEN <<92, 92>>
    ELSE IF c = 10 THEN <<92, 110>>
    ELSE IF c = 13 THEN <<92, 114>>
    ELSE IF c = 9 THEN <<92, 116>>
    ELSE IF c = 12 THEN <<92, 102>>
    ELSE IF c = 8 THEN <<92, 98>>
    ELSE IF 32 <= c /\ c <= 126 THEN <<c>>
    ELSE IF c < 65536 THEN <<92, 117>> \o Hex4(c)
    ELSE <<92, 117>> \o Hex4(55296 + ((c - 65536) \div 1024))
             \o <<92, 117>> \o Hex4(56320 + ((c - 65536) % 1024))

\* the escapes of the characters s[lo..hi], halving the range
RECURSIVE EscapeRange(_, _, _)
EscapeRange(s, lo, hi) ==
    IF lo > hi THEN <<>>
    ELSE IF lo = hi THEN EscapeChar(s[lo])
    ELSE LET mid == (lo + hi) \div 2
         IN  EscapeRange(s, lo, mid) \o EscapeRange(s, mid + 1, hi)

Escape(s) == EscapeRange(s, 1, Len(s))

\* the value of a hexadecimal digit, -1 for another character
HexValue(c) ==
    IF 48 <= c /\ c <= 57 THEN c - 48
    ELSE IF 97 <= c /\ c <= 102 THEN c - 87
    ELSE IF 65 <= c /\ c <= 70 THEN c - 55
    ELSE -1

\* the code unit of the escape \uXXXX whose "u" is at position i, -1 when malformed
CodeUnit(s, i) ==
    IF i + 4 > Len(s) \/ s[i] # 117 THEN -1
    ELSE IF \E k \in 1..4 : HexValue(s[i + k]) = -1 THEN -1
    ELSE 4096 * HexValue(s[i + 1]) + 256 * HexValue(s[i + 2])
             + 16 * HexValue(s[i + 3]) + HexValue(s[i + 4])

\* the code unit the escape opened by the backslash at position i stands for, -1 when
\* it is no escape
EscapeValue(s, i) ==
    IF i = Len(s) THEN -1
    ELSE LET c == s[i + 1]
         IN  IF c = 34 \/ c = 92 \/ c = 47 THEN c
             ELSE IF c = 110 THEN 10
             ELSE IF c = 114 THEN 13
             ELSE IF c = 116 THEN 9
             ELSE IF c = 102 THEN 12
             ELSE IF c = 98 THEN 8
             ELSE CodeUnit(s, i + 1)

\* the positions the escape at position i takes up
EscapeLength(s, i) == IF i < Len(s) /\ s[i + 1] = 117 THEN 6 ELSE 2

HighSurrogate(u) == 55296 <= u /\ u <= 56319
LowSurrogate(u) == 56320 <= u /\ u <= 57343

\* the scanner's state: the position, the characters so far, and whether all went well
Scan(i, acc, ok) == [i |-> i, acc |-> acc, ok |-> ok]

\* one step of the decoder's scan of a string body at position i: a plain character,
\* an escape, or a surrogate pair of two \uXXXX escapes; a raw quote, a raw control
\* character and a bad escape end the scan
ScanStep(s, i, acc) ==
    IF s[i] # 92
    THEN IF s[i] = 34 \/ s[i] < 32 THEN Scan(i, acc, FALSE)
         ELSE Scan(i + 1, Append(acc, s[i]), TRUE)
    ELSE LET u == EscapeValue(s, i)
             lo == IF i + 7 <= Len(s) /\ s[i + 6] = 92 THEN CodeUnit(s, i + 7) ELSE -1
         IN  IF u = -1 THEN Scan(i, acc, FALSE)
             ELSE IF EscapeLength(s, i) = 6 /\ HighSurrogate(u) /\ LowSurrogate(lo)
                  THEN Scan(i + 12, Append(acc, 65536 + (u - 55296) * 1024 + (lo - 56320)), TRUE)
             ELSE Scan(i + EscapeLength(s, i), Append(acc, u), TRUE)

\* the steps from position i up to position stop; ScanNext goes on from the state r
\* that one step has left
RECURSIVE ScanUpTo(_, _, _, _)
RECURSIVE ScanNext(_, _, _)
ScanUpTo(s, i, acc, stop) ==
    IF i > Len(s) \/ i >= stop THEN Scan(i, acc, TRUE)
    ELSE ScanNext(s, ScanStep(s, i, acc), stop)

ScanNext(s, r, stop) == IF ~r.ok THEN r ELSE ScanUpTo(s, r.i, r.acc, stop)

\* the scan in stretches of 16 positions
RECURSIVE ScanFrom(_, _)
ScanFrom(s, st) ==
    IF ~st.ok \/ st.i > Len(s) THEN st
    ELSE ScanFrom(s, ScanUpTo(s, st.i, st.acc, st.i + 16))

\* the decoder's scan of a string body: the characters, or ok = FALSE
Unescape(s) ==
    LET r == ScanFrom(s, Scan(1, <<>>, TRUE))
    IN  [ok |-> r.ok, v |-> IF r.ok THEN r.acc ELSE <<>>]

\* the keys of d in insertion order
RECURSIVE KeysFrom(_, _)
KeysFrom(d, i) ==
    IF i > Len(KeyOrder) THEN <<>>
    ELSE IF KeyOrder[i] \in DOMAIN d THEN <<KeyOrder[i]>> \o KeysFrom(d, i + 1)
    ELSE KeysFrom(d, i + 1)

\* json.dumps(x): the tokens of the text
RECURSIVE Dumps(_)
RECURSIVE DumpItems(_, _)
RECURSIVE DumpPairs(_, _, _)
Dumps(x) ==
    CASE x.t = "str" -> <<StringToken(Escape(x.v))>>
      [] x.t = "num" -> <<NumberToken(x.v)>>
      [] x.t = "None" -> <<Literal("null")>>
      [] x.t = "bool" -> <<Literal(IF x.v THEN "true" ELSE "false")>>
      [] x.t = "list" -> <<Punct("[")>> \o DumpItems(x.v, 1) \o <<Punct("]")>>
      [] x.t = "dict" -> <<Punct("{")>> \o DumpPairs(x.v, KeysFrom(x.v, 1), 1) \o <<Punct("}")>>

DumpItems(l, i) ==
    IF i > Len(l) THEN <<>>
    ELSE (IF i > 1 THEN <<Punct(",")>> ELSE <<>>) \o Dumps(l[i]) \o DumpItems(l, i + 1)

DumpPairs(d, keys, i) ==
    IF i > Len(keys) THEN <<>>
    ELSE (IF i > 1 THEN <<Punct(",")>> ELSE <<>>)
             \o <<StringToken(Escape(KeyChars[keys[i]])), Punct(":")>>
             \o Dumps(d[keys[i]]) \o DumpPairs(d, keys, i + 1)

\* what a parse step returns: failure, or the value and the position after it
ParseFail == [ok |-> FALSE, val |-> None, next |-> 0]
ParseOk(val, next) == [ok |-> TRUE, val |-> val, next |-> next]

\* the decoder: a value at position i; the rest of an array; the rest of an object.
\* StringValue, ArrayAfter and ObjectAfter go on from a string body k that has been
\* scanned and from an element r that has been parsed
RECURSIVE ParseValue(_, _)
RECURSIVE ParseArray(_, _, _, _)
RECURSIVE ArrayAfter(_, _, _)
RECURSIVE ParseObject(_, _, _, _)
RECURSIVE ObjectAfter(_, _, _, _)
StringValue(u, next) == IF u.ok THEN ParseOk(Str(u.v), next) ELSE ParseFail

ParseValue(toks, i) ==
    IF i > Len(toks) THEN ParseFail
    ELSE CASE toks[i].t = "string" -> StringValue(Unescape(toks[i].v), i + 1)
           [] toks[i].t = "number" -> ParseOk(Num(toks[i].v), i + 1)
           [] toks[i].t = "literal" ->
                ParseOk(IF toks[i].v = "null" THEN None ELSE Bool(toks[i].v = "true"), i + 1)
           [] IsPunct(toks[i], "[") -> ParseArray(toks, i + 1, <<>>, TRUE)
           [] IsPunct(toks[i], "{") -> ParseObject(toks, i + 1, EmptyDict, TRUE)
           [] OTHER -> ParseFail

ParseArray(toks, i, acc, first) ==
    IF i > Len(toks) THEN ParseFail
    ELSE IF first /\ IsPunct(toks[i], "]") THEN ParseOk(List(acc), i + 1)
    ELSE ArrayAfter(toks, acc, ParseValue(toks, i))

ArrayAfter(toks, acc, r) ==
    IF ~r.ok \/ r.next > Len(toks) THEN ParseFail
    ELSE IF IsPunct(toks[r.next], "]") THEN ParseOk(List(Append(acc, r.val)), r.next + 1)
    ELSE IF IsPunct(toks[r.next], ",")
         THEN ParseArray(toks, r.next + 1, Append(acc, r.val), FALSE)
    ELSE ParseFail

ParseObject(toks, i, d, first) ==
    IF i > Len(toks) THEN ParseFail
    ELSE IF first /\ IsPunct(toks[i], "}") THEN ParseOk(Dict(d), i + 1)
    ELSE IF toks[i].t # "string" \/ i + 1 > Len(toks) THEN ParseFail
    ELSE IF ~IsPunct(toks[i + 1], ":") THEN ParseFail
    ELSE ObjectAfter(toks, d, Unescape(toks[i].v), ParseValue(toks, i + 2))

\* a later pair with the same key replaces the earlier one
ObjectAfter(toks, d, k, r) ==
    IF ~k.ok \/ ~r.ok \/ r.next > Len(toks) THEN ParseFail
    ELSE IF IsPunct(toks[r.next], "}")
         THEN ParseOk(Dict((KeyName(k.v) :> r.val) @@ d), r.next + 1)
    ELSE IF IsPunct(toks[r.next], ",")
         THEN ParseObject(toks, r.next + 1, (KeyName(k.v) :> r.val) @@ d, FALSE)
    ELSE ParseFail

\* a decoder that stops after the first value and ignores what follows it
Loads_FirstValue(toks) ==
    LET r == ParseValue(toks, 1)
    IN  IF r.ok THEN r.val ELSE Raise("JSONDecodeError")

\* json.load: the value, or JSONDecodeError when no value starts the text or something
\* follows the value
Loads(toks) ==
    LET r == ParseValue(toks, 1)
    IN  IF r.ok /\ r.next = Len(toks) + 1 THEN r.val ELSE Raise("JSONDecodeError")

(***************************************************************************)
(* main: read the request from stdin, decide, print the verdict, exit.     *)
(***************************************************************************)
\* the values of hookEventName and permissionDecision, with their characters
ValueChars == [ PreToolUse |-> <<80, 114, 101, 84, 111, 111, 108, 85, 115, 101>>, deny |-> <<100, 101, 110, 121>> ]

\* the dict process_hook_request returns for a denial
ResultDict(r) ==
    Dict([hookSpecificOutput |->
            Dict([hookEventName |-> Str(ValueChars[r.v.hookEventName]),
                  permissionDecision |-> Str(ValueChars[r.v.permissionDecision]),
                  permissionDecisionReason |-> Str(r.v.permissionDecisionReason)])])

\* "Error: Invalid JSON input: "
InvalidJSONInput == <<69, 114, 114, 111, 114, 58, 32, 73, 110, 118, 97, 108, 105, 100, 32, 74, 83, 79, 78, 32, 105, 110, 112, 117, 116, 58, 32>>

\* the line print(f"Error: Invalid JSON input: {e}", file=sys.stderr) writes; e stays
\* the name of the exception
ErrorLine(e) == [t |-> "line", v |-> InvalidJSONInput, e |-> e]

\* the traceback the interpreter writes for an exception main does not catch
Traceback(e) == [t |-> "traceback", v |-> <<>>, e |-> e]

\* requests as the host sends them: Write and Edit of a text into a file
MainFieldOpts ==
    { Missing, None, Str(<<>>), Str(<<97>>), Str(<<\H2705>>), Str(<<\H1F680>>) }
    \cup { Str(s) : s \in ScenarioTexts }

MainPathOpts ==
    { Missing, Str(<<97, 46, 112, 121>>), Str(<<97, 46, 109, 100>>), Str(<<97, 46, 116, 120, 116>>) }

MainRequests ==
    { MkDict([tool_name |-> Str(WriteName),
              tool_input |-> MkDict([file_path |-> p, content |-> c])]) :
        p \in MainPathOpts, c \in MainFieldOpts }
    \cup
    { MkDict([tool_name |-> Str(EditName),
              tool_input |-> MkDict([file_path |-> p, old_string |-> Str(<<97>>), new_string |-> c])]) :
        p \in MainPathOpts, c \in MainFieldOpts }
    \cup CallRequests \cup { Dict(EmptyDict) }

\* requests with a field of another type: content 5, edits null, edits [null], a
\* numeric new_string in an edit, tool_input null
MainMalformedRequests ==
    { MkDict([tool_name |-> Str(WriteName),
              tool_input |-> MkDict([file_path |-> Str(<<97, 46, 112, 121>>), content |-> Num(5)])]),
      MkDict([tool_name |-> Str(MultiEditName),
              tool_input |-> MkDict([file_path |-> Str(<<97, 46, 112, 121>>), edits |-> None])]),
      MkDict([tool_name |-> Str(MultiEditName),
              tool_input |-> MkDict([file_path |-> Str(<<97, 46, 112, 121>>), edits |-> List(<<None>>)])]),
      MkDict([tool_name |-> Str(MultiEditName),
              tool_input |-> MkDict([file_path |-> Str(<<97, 46, 112, 121>>),
                                     edits |-> List(<<MkDict([new_string |-> Num(5)])>>)])]),
      MkDict([tool_name |-> Str(WriteName),
              tool_input |-> MkDict([file_path |-> Str(<<97, 46, 116, 120, 116>>), content |-> Num(5)])]),
      MkDict([tool_name |-> Str(WriteName), tool_input |-> None]) }

\* JSON values that are no object: [], null, 5, "a"
MainOtherValues == { List(<<>>), None, Num(5), Str(<<97>>) }

MainValues == MainRequests \cup MainMalformedRequests \cup MainOtherValues

\* texts that are not JSON: a JSON text cut short, a JSON text followed by one more
\* brace, a JSON text with a comma before its last token, and the words "invalid json {"
CutShort(d) == { SubSeq(d, 1, n) : n \in 0..(Len(d) - 1) }
ExtraData(d) == d \o <<Punct("}")>>
TrailingComma(d) == SubSeq(d, 1, Len(d) - 1) \o <<Punct(","), d[Len(d)]>>

MainInputs ==
    { Dumps(v) : v \in MainValues }
    \cup UNION { CutShort(Dumps(v)) : v \in MainValues }
    \cup { ExtraData(Dumps(v)) : v \in MainValues }
    \cup { TrailingComma(Dumps(v)) : v \in MainValues }
    \cup { <<Word("invalid"), Word("json"), Punct("{")>> }

InitMain ==
    /\ pc = "main"
    /\ stdin \in MainInputs
    /\ stdout = <<>>
    /\ stderr = <<>>
    /\ exit_code = -1
    /\ history = <<>>
    /\ cls = ClassAttributes
    /\ input_data = Idle
    /\ text = Idle
    /\ max_examples = 0
    /\ file_path = Idle
    /\ tool_name = Idle
    /\ tool_input = Idle
    /\ ret = Idle

\* try: input_data = json.load(sys.stdin); except json.JSONDecodeError: print, exit(1)
MainLoad ==
    /\ pc = "main"
    /\ LET loaded == Loads(stdin)
       IN  IF loaded.t = "raise"
           THEN /\ stderr' = Append(stderr, ErrorLine(loaded.v))
                /\ exit_code' = 1
                /\ pc' = "exit"
                /\ UNCHANGED input_data
           ELSE /\ input_data' = loaded
                /\ pc' = "loaded"
                /\ UNCHANGED <<stderr, exit_code>>
    /\ UNCHANGED <<text, max_examples, file_path, tool_name, tool_input, ret, cls,
                   stdin, stdout, history>>

\* result = EmojiChecker.process_hook_request(input_data); an exception is caught by
\* nobody: the interpreter writes the traceback and exits with 1
MainProcess ==
    /\ pc = "loaded"
    /\ ret' = process_hook_request(input_data)
    /\ IF ret'.t = "raise"
       THEN /\ stderr' = Append(stderr, Traceback(ret'.v))
            /\ exit_code' = 1
            /\ pc' = "exit"
       ELSE /\ pc' = "processed"
            /\ UNCHANGED <<stderr, exit_code>>
    /\ UNCHANGED <<text, max_examples, file_path, tool_name, tool_input, input_data, cls,
                   stdin, stdout, history>>

\* if result: print(json.dumps(result)); sys.exit(0) -- else sys.exit(0)
MainOutput ==
    /\ pc = "processed"
    /\ stdout' = IF Truthy(ret) THEN Append(stdout, Dumps(ResultDict(ret))) ELSE stdout
    /\ exit_code' = 0
    /\ pc' = "exit"
    /\ UNCHANGED <<text, max_examples, file_path, tool_name, tool_input, input_data, ret,
                   cls, stdin, stderr, history>>

NextMain == MainLoad \/ MainProcess \/ MainOutput

SpecMain == InitMain /\ [][NextMain]_vars

(***************************************************************************)
(* The standalone script src/check-no-emojis.py: the same hook written as  *)
(* module-level functions, each with the denylist as local values.         *)
(***************************************************************************)
\* colorful_symbols, the set has_emojis builds at each call
has_emojis_colorful_symbols ==
    { \H2705, \H274C, \H2B50, \H2764, \H2728, \H2733, \H2734,
      \H2747, \H2757, \H2753, \H2755, \H2795, \H2796, \H2797 }

\* the intervals of colorful_emoji_pattern, the pattern has_emojis compiles at each call
has_emojis_colorful_emoji_pattern ==
    << <<\H1F600, \H1F64F>>, <<\H1F680, \H1F6FF>>, <<\H1F300, \H1F5FF>>,
       <<\H1F900, \H1F9FF>>, <<\H1F1E0, \H1F1FF>> >>

\* colorful_symbols as get_emoji_examples declares it, without the star U+2B50
get_emoji_examples_colorful_symbols_NoStar ==
    { \H2705, \H274C, \H2764, \H2728, \H2733, \H2734,
      \H2747, \H2757, \H2753, \H2755, \H2795, \H2796, \H2797 }

\* colorful_symbols, the set get_emoji_examples builds at each call
get_emoji_examples_colorful_symbols ==
    { \H2705, \H274C, \H2B50, \H2764, \H2728, \H2733, \H2734,
      \H2747, \H2757, \H2753, \H2755, \H2795, \H2796, \H2797 }

\* the intervals of colorful_emoji_pattern, the pattern get_emoji_examples compiles
get_emoji_examples_colorful_emoji_pattern ==
    << <<\H1F600, \H1F64F>>, <<\H1F680, \H1F6FF>>, <<\H1F300, \H1F5FF>>,
       <<\H1F900, \H1F9FF>>, <<\H1F1E0, \H1F1FF>> >>

\* one character matches the class of a pattern with these intervals
ScriptClassMatch(ranges, c) ==
    \E r \in 1..Len(ranges) : ranges[r][1] <= c /\ c <= ranges[r][2]

\* for char in text: if char in colorful_symbols: return True
RECURSIVE ScriptSymbolScan(_, _)
ScriptSymbolScan(s, i) ==
    IF i > Len(s) THEN FALSE
    ELSE IF s[i] \in has_emojis_colorful_symbols THEN TRUE
    ELSE ScriptSymbolScan(s, i + 1)

\* colorful_emoji_pattern.search(text) finds a match
RECURSIVE ScriptSearchFrom(_, _)
ScriptSearchFrom(s, i) ==
    IF i > Len(s) THEN FALSE
    ELSE IF ScriptClassMatch(has_emojis_colorful_emoji_pattern, s[i]) THEN TRUE
    ELSE ScriptSearchFrom(s, i + 1)

\* "char in colorful_symbols" for an element of a list
ScriptIsSymbolString(symbols, e) == e.t = "str" /\ Len(e.v) = 1 /\ e.v[1] \in symbols

\* has_emojis of the script on a list: an unhashable element raises at the set test,
\* and the pattern search raises on a list
RECURSIVE ScriptListScan(_, _)
ScriptListScan(l, i) ==
    IF i > Len(l) THEN Raise("TypeError")
    ELSE IF l[i].t \in {"list", "dict"} THEN Raise("TypeError")
    ELSE IF ScriptIsSymbolString(has_emojis_colorful_symbols, l[i]) THEN Bool(TRUE)
    ELSE ScriptListScan(l, i + 1)

\* has_emojis(text) of the script
script_has_emojis(x) ==
    IF ~Truthy(x) THEN Bool(FALSE)
    ELSE IF x.t = "list" THEN ScriptListScan(x.v, 1)
    ELSE IF x.t # "str" THEN Raise("TypeError")
    ELSE IF ScriptSymbolScan(x.v, 1) THEN Bool(TRUE)
    ELSE Bool(ScriptSearchFrom(x.v, 1))

\* the first loop of get_emoji_examples of the script
RECURSIVE ScriptSymbolPass(_, _, _, _)
ScriptSymbolPass(s, i, emojis, max) ==
    IF i > Len(s) THEN [emojis |-> emojis, returned |-> FALSE]
    ELSE IF s[i] \in get_emoji_examples_colorful_symbols /\ ~InList(s[i], emojis)
         THEN LET e == Append(emojis, s[i])
              IN  IF Len(e) >= max THEN [emojis |-> e, returned |-> TRUE]
                  ELSE ScriptSymbolPass(s, i + 1, e, max)
         ELSE ScriptSymbolPass(s, i + 1, emojis, max)

\* end (inclusive) of the greedy match that starts at i
RECURSIVE ScriptGreedyEnd(_, _)
ScriptGreedyEnd(s, i) ==
    IF i < Len(s) /\ ScriptClassMatch(get_emoji_examples_colorful_emoji_pattern, s[i + 1])
    THEN ScriptGreedyEnd(s, i + 1)
    ELSE i

\* colorful_emoji_pattern.finditer(text): the non-overlapping matches, left to right
RECURSIVE ScriptFindIterFrom(_, _)
ScriptFindIterFrom(s, i) ==
    IF i > Len(s) THEN <<>>
    ELSE IF ScriptClassMatch(get_emoji_examples_colorful_emoji_pattern, s[i])
         THEN <<SubSeq(s, i, ScriptGreedyEnd(s, i))>>
                  \o ScriptFindIterFrom(s, ScriptGreedyEnd(s, i) + 1)
         ELSE ScriptFindIterFrom(s, i + 1)

\* for char in match.group(): ...
RECURSIVE ScriptMatchChars(_, _, _, _)
ScriptMatchChars(m, i, emojis, max) ==
    IF i > Len(m) THEN emojis
    ELSE IF ~InList(m[i], emojis)
         THEN LET e == Append(emojis, m[i])
              IN  IF Len(e) >= max THEN e ELSE ScriptMatchChars(m, i + 1, e, max)
         ELSE ScriptMatchChars(m, i + 1, emojis, max)

\* for match in colorful_emoji_pattern.finditer(text): ...
RECURSIVE ScriptMatchLoop(_, _, _, _)
ScriptMatchLoop(ms, j, emojis, max) ==
    IF j > Len(ms) THEN emojis
    ELSE LET e == ScriptMatchChars(ms[j], 1, emojis, max)
         IN  IF Len(e) >= max THEN e ELSE ScriptMatchLoop(ms, j + 1, e, max)

\* the second loop, entered while the list is below max_examples
ScriptRangePass(s, emojis, max) ==
    IF Len(emojis) < max THEN ScriptMatchLoop(ScriptFindIterFrom(s, 1), 1, emojis, max)
    ELSE emojis

\* get_emoji_examples of the script on a str
ScriptExamples(s, max) ==
    LET p == ScriptSymbolPass(s, 1, <<>>, max)
    IN  IF p.returned THEN p.emojis ELSE ScriptRangePass(s, p.emojis, max)

\* get_emoji_examples of the script on a list
RECURSIVE ScriptListPass(_, _, _, _)
ScriptListPass(l, i, emojis, max) ==
    IF i > Len(l) THEN (IF Len(emojis) < max THEN Raise("TypeError") ELSE List(emojis))
    ELSE IF l[i].t \in {"list", "dict"} THEN Raise("TypeError")
    ELSE IF ScriptIsSymbolString(get_emoji_examples_colorful_symbols, l[i])
              /\ ~InList(l[i].v[1], emojis)
         THEN LET e == Append(emojis, l[i].v[1])
              IN  IF Len(e) >= max THEN List(e) ELSE ScriptListPass(l, i + 1, e, max)
         ELSE ScriptListPass(l, i + 1, emojis, max)

\* get_emoji_examples(text, max_examples) of the script
script_get_emoji_examples(x, max) ==
    IF x.t = "str" THEN List(ScriptExamples(x.v, max))
    ELSE IF x.t = "list" THEN ScriptListPass(x.v, 1, <<>>, max)
    ELSE IF x.t = "dict" /\ max <= 0 THEN List(<<>>)
    ELSE Raise("TypeError")

\* [".py", ".md", ".mdx"]
ScriptExtensions == << <<46, 112, 121>>, <<46, 109, 100>>, <<46, 109, 100, 120>> >>

\* is_python_or_markdown_file(file_path)
is_python_or_markdown_file(x) ==
    IF ~Truthy(x) THEN Bool(FALSE)
    ELSE IF x.t # "str" THEN Raise("TypeError")
    ELSE Bool(InList(Lower(PathSuffix(x.v)), ScriptExtensions))

\* the loop "for edit in edits" of the script
RECURSIVE ScriptEditLoop(_, _, _)
ScriptEditLoop(edits, i, content_parts) ==
    IF i > Len(edits) THEN List(content_parts)
    ELSE IF edits[i].t # "dict" THEN Raise("AttributeError")
    ELSE LET new_string == Get(edits[i].v, "new_string", Str(<<>>))
         IN  IF Truthy(new_string)
             THEN ScriptEditLoop(edits, i + 1, Append(content_parts, new_string))
             ELSE ScriptEditLoop(edits, i + 1, content_parts)

\* the MultiEdit branch of the script
ScriptMultiEditContent(d) ==
    LET edits == Get(d, "edits", List(<<>>))
    IN  IF edits.t \in {"str", "dict"} /\ ~Truthy(edits) THEN Str(<<>>)
        ELSE IF edits.t = "str" \/ edits.t = "dict" THEN Raise("AttributeError")
        ELSE IF edits.t # "list" THEN Raise("TypeError")
        ELSE LET parts == ScriptEditLoop(edits.v, 1, <<>>)
             IN  IF parts.t = "raise" THEN parts
                 ELSE IF \E k \in 1..Len(parts.v) : parts.v[k].t # "str" THEN Raise("TypeError")
                 ELSE Str(Join([k \in 1..Len(parts.v) |-> parts.v[k].v]))

\* extract_content_from_tool_input(tool_name, tool_input) of the script
script_extract_content_from_tool_input(name, ti) ==
    IF name \in { Str(WriteName), Str(EditName), Str(MultiEditName) } /\ ti.t # "dict"
    THEN Raise("AttributeError")
    ELSE IF name = Str(WriteName) THEN Get(ti.v, "content", Str(<<>>))
    ELSE IF name = Str(EditName) THEN Get(ti.v, "new_string", Str(<<>>))
    ELSE IF name = Str(MultiEditName) THEN ScriptMultiEditContent(ti.v)
    ELSE Str(<<>>)

\* the fixed text of the f-string of the script, as the code points the source file
\* holds: U+201A U+00F9 U+00E5 where the module has the cross mark U+274C
ScriptReasonHead ==
    <<\H201A, \HF9, \HE5, 32, 67, 111, 108, 111, 114, 102, 117, 108, 32, 101, 109, 111, 106,
      105, 115, 32, 100, 101, 116, 101, 99, 116, 101, 100, 32, 105, 110, 32>>

\* " file '"
ScriptReasonFile == <<32, 102, 105, 108, 101, 32, 39>>

\* "': "
ScriptReasonSep == <<39, 58, 32>>

\* two newlines and "Python and Markdown files should not contain ... and try again.";
\* the four lookalikes of the module are eleven other code points here
ScriptReasonTail ==
    <<10, 10, 80, 121, 116, 104, 111, 110, 32, 97, 110, 100, 32, 77, 97, 114, 107, 100, 111,
      119, 110, 32, 102, 105, 108, 101, 115, 32, 115, 104, 111, 117, 108, 100, 32, 110, 111,
      116, 32, 99, 111, 110, 116, 97, 105, 110, 32, 99, 111, 108, 111, 114, 102, 117, 108, 32,
      101, 109, 111, 106, 105, 115, 32, 102, 111, 114, 32, 112, 114, 111, 102, 101, 115, 115,
      105, 111, 110, 97, 108, 32, 99, 111, 100, 101, 32, 115, 116, 97, 110, 100, 97, 114, 100,
      115, 46, 32, 83, 105, 109, 112, 108, 101, 32, 115, 121, 109, 98, 111, 108, 115, 32, 108,
      105, 107, 101, 32, \H201A, \HFA, \HEC, 32, \H221A, \HF3, 32, \H201A, \HDC, \HED, 32,
      \H201A, \HC4, \HA2, 32, 97, 114, 101, 32, 97,
      108, 108, 111, 119, 101, 100, 46, 32, 80, 108, 101, 97, 115, 101, 32, 114, 101, 109, 111,
      118, 101, 32, 116, 104, 101, 32, 99, 111, 108, 111, 114, 102, 117, 108, 32, 101, 109,
      111, 106, 105, 115, 32, 97, 110, 100, 32, 116, 114, 121, 32, 97, 103, 97, 105, 110, 46>>

\* the characters of the label
ScriptLabelChars(file_type) ==
    IF file_type = "Python" THEN <<80, 121, 116, 104, 111, 110>>
    ELSE <<77, 97, 114, 107, 100, 111, 119, 110>>

\* the f-string of the script
ScriptReason(file_type, path, examples_str) ==
    ScriptReasonHead \o ScriptLabelChars(file_type) \o ScriptReasonFile \o path
        \o ScriptReasonSep \o examples_str \o ScriptReasonTail

\* the dict "output"; next to the reason it keeps the parts the f-string is assembled
\* from
ScriptOutput(file_type, path, examples_str) ==
    [t |-> "deny",
     v |-> [hookEventName |-> "PreToolUse",
            permissionDecision |-> "deny",
            permissionDecisionReason |-> ScriptReason(file_type, path, examples_str),
            file_type |-> file_type,
            file_path |-> path,
            examples_str |-> examples_str]]

\* the body of "if has_emojis(content):" up to the dict "output"
ScriptDenyFor(path, content) ==
    LET emoji_examples == script_get_emoji_examples(content, DefaultMaxExamples)
    IN  IF emoji_examples.t = "raise" THEN emoji_examples
        ELSE LET examples_str == IF emoji_examples.v # <<>>
                                 THEN Join([k \in 1..Len(emoji_examples.v) |-> <<emoji_examples.v[k]>>])
                                 ELSE Detected
                 file_type == IF EndsWithPy(path.v) THEN "Python" ELSE "Markdown"
             IN  ScriptOutput(file_type, path.v, examples_str)

\* main of the script from the file path on
ScriptCheckFile(name, ti) ==
    IF ti.t # "dict" THEN Raise("AttributeError")
    ELSE LET path == Get(ti.v, "file_path", Str(<<>>))
             monitored == is_python_or_markdown_file(path)
         IN  IF monitored.t = "raise" THEN monitored
             ELSE IF ~monitored.v THEN None
             ELSE LET content == script_extract_content_from_tool_input(name, ti)
                      found == IF content.t = "raise" THEN content ELSE script_has_emojis(content)
                  IN  IF found.t = "raise" THEN found
                      ELSE IF found.v THEN ScriptDenyFor(path, content)
                      ELSE None

\* main of the script after json.load: None when it exits without output, the dict
\* "output" when it prints one, or the exception raised
ScriptVerdict(x) ==
    IF x.t # "dict" THEN Raise("AttributeError")
    ELSE LET name == Get(x.v, "tool_name", Str(<<>>))
             ti == Get(x.v, "tool_input", Dict(EmptyDict))
         IN  IF name \notin { Str(WriteName), Str(EditName), Str(MultiEditName) } THEN None
             ELSE ScriptCheckFile(name, ti)

\* what the script is given on stdin: the inputs of main, and the MultiEdit requests
ScriptInputs == MainInputs \cup { Dumps(v) : v \in MultiEditRequests }

InitScript ==
    /\ pc = "script"
    /\ stdin \in ScriptInputs
    /\ stdout = <<>>
    /\ stderr = <<>>
    /\ exit_code = -1
    /\ history = <<>>
    /\ cls = ClassAttributes
    /\ input_data = Idle
    /\ text = Idle
    /\ max_examples = 0
    /\ file_path = Idle
    /\ tool_name = Idle
    /\ tool_input = Idle
    /\ ret = Idle

\* try: input_data = json.load(sys.stdin); except json.JSONDecodeError: print, exit(1)
ScriptLoad ==
    /\ pc = "script"
    /\ LET loaded == Loads(stdin)
       IN  IF loaded.t = "raise"
           THEN /\ stderr' = Append(stderr, ErrorLine(loaded.v))
                /\ exit_code' = 1
                /\ pc' = "script_exit"
                /\ UNCHANGED input_data
           ELSE /\ input_data' = loaded
                /\ pc' = "script_loaded"
                /\ UNCHANGED <<stderr, exit_code>>
    /\ UNCHANGED <<text, max_examples, file_path, tool_name, tool_input, ret, cls,
                   stdin, stdout, history>>

\* the rest of main: the tests, print(json.dumps(output)) on a detection, sys.exit(0);
\* an exception is caught by nobody, the interpreter writes the traceback and exits
\* with 1
ScriptRun ==
    /\ pc = "script_loaded"
    /\ ret' = ScriptVerdict(input_data)
    /\ IF ret'.t = "raise"
       THEN /\ stderr' = Append(stderr, Traceback(ret'.v))
            /\ exit_code' = 1
            /\ UNCHANGED stdout
       ELSE /\ stdout' = IF ret'.t = "deny" THEN Append(stdout, Dumps(ResultDict(ret'))) ELSE stdout
            /\ exit_code' = 0
            /\ UNCHANGED stderr
    /\ pc' = "script_exit"
    /\ UNCHANGED <<text, max_examples, file_path, tool_name, tool_input, input_data, cls,
                   stdin, history>>

NextScript == ScriptLoad \/ ScriptRun

SpecScript == InitScript /\ [][NextScript]_vars

(***************************************************************************)
(* Properties of extraction and of the request handler.                    *)
(***************************************************************************)
CheckedTools == { Str(WriteName), Str(EditName), Str(MultiEditName) }

\* the fields of the request at hand, with the defaults of the handler
ReqToolName == Get(input_data.v, "tool_name", Str(<<>>))
ReqToolInput == Get(input_data.v, "tool_input", Dict(EmptyDict))
ReqPath == Get(ReqToolInput.v, "file_path", Str(<<>>))
ReqText == extract_content_from_tool_input(ReqToolName, ReqToolInput)

\* the path names a monitored file: its final extension is .py, .md or .mdx in any case
MonitoredPath(p) ==
    p.t = "str" /\ \E e \in FinalExtension(p.v) : Lower(e) \in ClaimedExtensions

\* C1: process_hook_request returns a deny record exactly when the tool is Write, Edit or
\* MultiEdit, the path is a monitored file and the extracted text holds a disallowed
\* character; in every other case it returns None.
C1_DenyIffToolFileAndText ==
    pc = "process_hook_request" =>
        IF /\ ReqToolName \in CheckedTools
           /\ MonitoredPath(ReqPath)
           /\ ReqText.t = "str" /\ HasDisallowedChar(ReqText.v)
        THEN ret.t = "deny" /\ ret.v.permissionDecision = "deny"
        ELSE ret = None

\* C1 witness: a MultiEdit on a monitored file is denied, and so the three conditions met.
C1_Witness ==
    /\ pc = "process_hook_request"
    /\ ReqToolName = Str(MultiEditName)
    /\ ret.t = "deny"

\* a text of monochrome lookalikes and ordinary characters only
MonochromeText(s) == \A i \in 1..Len(s) : s[i] \in Monochrome \cup Ordinary

\* C3: a text made only of monochrome lookalikes and ordinary characters is never
\* reported by has_emojis, and writing it to a monitored file is allowed.
C3_MonochromeNeverReported ==
    /\ (pc = "has_emojis" /\ text.t = "str" /\ MonochromeText(text.v)) => ret = Bool(FALSE)
    /\ (pc = "process_hook_request" /\ ReqToolName \in CheckedTools /\ MonitoredPath(ReqPath)
            /\ ReqText.t = "str" /\ MonochromeText(ReqText.v)) => ret = None

\* C3 witness: two different monochrome symbols written to a monitored file are allowed.
C3_Witness ==
    /\ pc = "process_hook_request"
    /\ ReqToolName \in CheckedTools
    /\ MonitoredPath(ReqPath)
    /\ ReqText.t = "str"
    /\ InList(\H2713, ReqText.v) /\ InList(\H2192, ReqText.v)
    /\ ret = None

\* C7 as claimed: a denial for a path that ends in .py, in any letter case, is labelled
\* "Python".
C7_AnyCasePyLabelledPython ==
    (pc = "process_hook_request" /\ ret.t = "deny" /\ EndsWithPy(Lower(ret.v.file_path))) =>
        ret.v.file_type = "Python"

\* the path of the request is a string, null or absent
PathWellFormed == ReqToolInput.t = "dict" /\ ReqPath.t \in {"str", "None"}

\* C11 as claimed: for every tool name and every tool_input mapping, also one whose
\* content, new_string or edits is present but malformed, extraction returns a string
\* and the request handler raises no exception.
C11_ExtractionNeverFails ==
    /\ (pc = "extract_content_from_tool_input" /\ tool_input.t = "dict") => ret.t = "str"
    /\ (pc = "process_hook_request" /\ PathWellFormed) => ret.t # "raise"

\* C17: a request whose tool is not Write, Edit or MultiEdit, or whose path (a string,
\* null or absent) is not monitored, is allowed whatever its payload holds, also when
\* the payload holds colorful emojis or extraction or classification would raise on it.
C17_GatesBeforeExtraction ==
    (pc = "process_hook_request" /\
     (ReqToolName \notin CheckedTools \/ (PathWellFormed /\ ~MonitoredPath(ReqPath)))) =>
        ret = None

\* C17 witness: a MultiEdit on an unmonitored file whose edits make extraction raise
\* is allowed.
C17_Witness ==
    /\ pc = "process_hook_request"
    /\ ReqToolName = Str(MultiEditName)
    /\ PathWellFormed /\ Truthy(ReqPath) /\ ~MonitoredPath(ReqPath)
    /\ ReqText.t = "raise"
    /\ ret = None

\* the string s ends with the string suf
HasSuffix(s, suf) ==
    Len(s) >= Len(suf) /\ SubSeq(s, Len(s) - Len(suf) + 1, Len(s)) = suf

\* C18: in every denial the label is "Python" exactly when the path string of the
\* request ends with ".py" and "Markdown" otherwise; paths ending in .md and .mdx are
\* labelled "Markdown".
C18_LabelPythonIffEndsWithPy ==
    (pc = "process_hook_request" /\ ret.t = "deny") =>
        /\ ReqPath = Str(ret.v.file_path)
        /\ ret.v.file_type = (IF HasSuffix(ret.v.file_path, <<46, 112, 121>>) THEN "Python" ELSE "Markdown")
        /\ (HasSuffix(ret.v.file_path, <<46, 109, 100>>) \/ HasSuffix(ret.v.file_path, <<46, 109, 100, 120>>))
               => ret.v.file_type = "Markdown"

\* C18 witness: a denial for a path that ends in .mdx, labelled "Markdown".
C18_Witness ==
    /\ pc = "process_hook_request"
    /\ ret.t = "deny"
    /\ HasSuffix(ret.v.file_path, <<46, 109, 100, 120>>)
    /\ ret.v.file_type = "Markdown"

\* the new_string of an edit as text: empty when missing, None or empty
NewStringText(edit) ==
    LET n == Get(edit.v, "new_string", Str(<<>>)) IN IF n.t = "str" THEN n.v ELSE <<>>

\* the non-empty new_string values in edit order, one space between neighbours
RECURSIVE JoinNonEmpty(_)
JoinNonEmpty(es) ==
    IF es = <<>> THEN <<>>
    ELSE LET h == NewStringText(Head(es))
             r == JoinNonEmpty(Tail(es))
         IN  IF h = <<>> THEN r
             ELSE IF r = <<>> THEN h
             ELSE h \o <<32>> \o r

\* C9: extraction returns the content field for Write, the new_string field for Edit, the
\* non-empty new_string values joined by one space for MultiEdit, and "" for another tool.
C9_ExtractByTool ==
    pc = "extract_content_from_tool_input" =>
        ret = CASE tool_name = Str(WriteName) -> Get(tool_input.v, "content", Str(<<>>))
                [] tool_name = Str(EditName) -> Get(tool_input.v, "new_string", Str(<<>>))
                [] tool_name = Str(MultiEditName) ->
                       Str(JoinNonEmpty(Get(tool_input.v, "edits", List(<<>>)).v))
                [] OTHER -> Str(<<>>)

\* C9 witness: a MultiEdit whose edits are an empty new_string, then a non-empty one,
\* returns the non-empty one with no separator.
C9_Witness ==
    /\ pc = "extract_content_from_tool_input"
    /\ tool_name = Str(MultiEditName)
    /\ "edits" \in DOMAIN tool_input.v
    /\ Len(tool_input.v["edits"].v) = 2
    /\ NewStringText(tool_input.v["edits"].v[1]) = <<>>
    /\ NewStringText(tool_input.v["edits"].v[2]) # <<>>
    /\ ret = Str(NewStringText(tool_input.v["edits"].v[2]))

\* the edits of the request at hand
ReqEdits == Get(ReqToolInput.v, "edits", List(<<>>)).v

\* the request lacks tool_name, tool_input, file_path or the field its tool reads
MissingRequestField ==
    \/ "tool_name" \notin DOMAIN input_data.v
    \/ "tool_input" \notin DOMAIN input_data.v
    \/ "file_path" \notin DOMAIN ReqToolInput.v
    \/ (ReqToolName = Str(WriteName) /\ "content" \notin DOMAIN ReqToolInput.v)
    \/ (ReqToolName = Str(EditName) /\ "new_string" \notin DOMAIN ReqToolInput.v)
    \/ (ReqToolName = Str(MultiEditName) /\ "edits" \notin DOMAIN ReqToolInput.v)

\* a MultiEdit one of whose edits has no new_string
EditWithoutNewString ==
    /\ ReqToolName = Str(MultiEditName)
    /\ \E i \in 1..Len(ReqEdits) : "new_string" \notin DOMAIN ReqEdits[i].v

WithEmptyNewStrings ==
    LET filled == [i \in 1..Len(ReqEdits) |->
                      IF "new_string" \in DOMAIN ReqEdits[i].v THEN ReqEdits[i]
                      ELSE MkDict([new_string |-> Str(<<>>)])]
        ti == [k \in DOMAIN ReqToolInput.v |->
                  IF k = "edits" THEN List(filled) ELSE ReqToolInput.v[k]]
    IN  Dict([k \in DOMAIN input_data.v |->
                 IF k = "tool_input" THEN Dict(ti) ELSE input_data.v[k]])

Without(d, ks) == [k \in (DOMAIN d) \ ks |-> d[k]]

\* the payload keys the tool kind does not designate
UnreadKeys(name) ==
    {"old_string"} \cup
    (IF name = Str(WriteName) THEN {"new_string", "edits"}
     ELSE IF name = Str(EditName) THEN {"content", "edits"}
     ELSE IF name = Str(MultiEditName) THEN {"content", "new_string"}
     ELSE {"content", "new_string", "edits"})

\* the request with every unread field removed, the old_string of each edit included
WithoutUnread(req) ==
    LET name == Get(req.v, "tool_name", Str(<<>>))
        ti == Without(req.v.tool_input.v, UnreadKeys(name))
        ti2 == IF "edits" \in DOMAIN ti
               THEN [ti EXCEPT !["edits"] =
                        List([i \in 1..Len(@.v) |-> Dict(Without(@.v[i].v, {"old_string"}))])]
               ELSE ti
    IN  Dict([req.v EXCEPT !["tool_input"] = Dict(ti2)])

\* the text of the field the tool kind designates holds no disallowed character
ReadTextClean == ReqText.t = "str" /\ ~HasDisallowedChar(ReqText.v)

\* some field the tool does not read holds a disallowed character
UnreadFieldHasEmoji ==
    \/ \E k \in UnreadKeys(ReqToolName) \cap DOMAIN ReqToolInput.v :
          ReqToolInput.v[k].t = "str" /\ HasDisallowedChar(ReqToolInput.v[k].v)
    \/ /\ ReqToolName = Str(MultiEditName)
       /\ \E i \in 1..Len(ReqEdits) :
            HasDisallowedChar(Get(ReqEdits[i].v, "old_string", Str(<<>>)).v)

\* C20: the verdict is that of the request with every unread field removed (old_string
\* everywhere; new_string and edits for Write; content and edits for Edit; content and
\* new_string for MultiEdit), so requests that differ only in such fields get the same
\* verdict, and when the designated text is clean the request is allowed whatever the
\* unread fields hold.
C20_VerdictIgnoresUnreadFields ==
    pc = "process_hook_request" =>
        /\ ret = process_hook_request(WithoutUnread(input_data))
        /\ (ReadTextClean => ret = None)

\* C20 witness: an Edit on a monitored file whose old_string holds a rocket and whose
\* new_string is clean is allowed.
C20_Witness ==
    /\ pc = "process_hook_request"
    /\ ReqToolName = Str(EditName)
    /\ MonitoredPath(ReqPath)
    /\ Get(ReqToolInput.v, "old_string", Str(<<>>)) = Str(<<\H1F680>>)
    /\ Get(ReqToolInput.v, "new_string", Str(<<>>)) = Str(<<97>>)
    /\ UnreadFieldHasEmoji
    /\ ret = None

\* the characters of l with one space between neighbours
RECURSIVE SpaceJoined(_)
SpaceJoined(l) ==
    IF l = <<>> THEN <<>>
    ELSE IF Len(l) = 1 THEN <<l[1]>>
    ELSE <<l[1], 32>> \o SpaceJoined(Tail(l))

\* the examples of the scanned text of the request, with the cap of 3
ReqExamples == get_emoji_examples(ReqText, 3).v

\* C14: every denial reason is the fixed opening, the file kind label, the path exactly
\* as given and the examples get_emoji_examples(text, 3) returns joined by single
\* spaces; the examples are at most 3, each a disallowed character of the scanned text
\* and none a monochrome symbol, also when the text mixes such symbols with emojis.
C14_ReasonNamesLabelPathExamples ==
    (pc = "process_hook_request" /\ ret.t = "deny") =>
        /\ ret.v.permissionDecisionReason =
              ReasonHead \o LabelChars(ret.v.file_type) \o ReasonFile \o ReqPath.v
                  \o ReasonSep \o SpaceJoined(ReqExamples) \o ReasonTail
        /\ ret.v.file_type \in {"Python", "Markdown"}
        /\ Len(ReqExamples) \in 1..3
        /\ \A i \in 1..Len(ReqExamples) :
              /\ Disallowed(ReqExamples[i])
              /\ InList(ReqExamples[i], ReqText.v)
              /\ ReqExamples[i] \notin Monochrome

\* C14 witness: a denial of a text with four distinct disallowed characters lists the
\* first three set characters, a space between neighbours.
C14_Witness ==
    /\ pc = "process_hook_request"
    /\ ret.t = "deny"
    /\ Cardinality(DistinctDisallowed(ReqText.v)) = 4
    /\ ret.v.examples_str = <<\H2705, 32, \H274C, 32, \H2B50>>

\* C15: in every sequence of process_hook_request calls the same request gets the same
\* verdict (None, or the deny record with the same reason) whatever was called before,
\* and the denylist set, the range pattern and the monitored extensions stay as the
\* class body bound them.
C15_VerdictFunctionOfRequest ==
    /\ cls = ClassAttributes
    /\ \A i, j \in 1..Len(history) :
          history[i].request = history[j].request => history[i].verdict = history[j].verdict

\* C15 witness: a request is denied, another request is handled, and the first request
\* is denied again with the same reason.
C15_Witness ==
    /\ Len(history) = 3
    /\ history[1].request = history[3].request
    /\ history[1].request # history[2].request
    /\ history[2].verdict.t = "deny"
    /\ history[1].verdict.t = "deny"
    /\ history[3].verdict.v.permissionDecisionReason = history[1].verdict.v.permissionDecisionReason

\* the text on stdin is the JSON text of some value
Parseable == \E v \in MainValues : stdin = Dumps(v)

\* s holds sub as a run of neighbouring characters
Contains(s, sub) == \E i \in 1..(Len(s) - Len(sub) + 1) : SubSeq(s, i, i + Len(sub) - 1) = sub

\* "Invalid JSON input"
InvalidJSONWords ==
    <<73, 110, 118, 97, 108, 105, 100, 32, 74, 83, 79, 78, 32, 105, 110, 112, 117, 116>>

\* C12: when stdin is not parseable as JSON, main never runs the classifier and prints
\* nothing to stdout, and it ends with exit code 1 and one message on stderr that
\* contains "Invalid JSON input".
C12_InvalidJSONIsError ==
    ~Parseable =>
        /\ pc \in {"main", "exit"}
        /\ ret = Idle /\ input_data = Idle
        /\ stdout = <<>>
        /\ pc = "exit" =>
            /\ exit_code = 1
            /\ Len(stderr) = 1
            /\ stderr[1].t = "line"
            /\ Contains(stderr[1].v, InvalidJSONWords)

\* C12 witness: main has ended on a request whose closing brace is missing.
C12_Witness ==
    /\ pc = "exit"
    /\ Len(stdin) > 1
    /\ \E v \in MainRequests : stdin = SubSeq(Dumps(v), 1, Len(Dumps(v)) - 1)
    /\ exit_code = 1
    /\ stdout = <<>>

\* the text on stdin is the JSON text of a request: an object whose tool_input, when
\* it has one, is an object
ParseableRequest ==
    \E v \in MainRequests \cup MainMalformedRequests :
        /\ stdin = Dumps(v)
        /\ Get(v.v, "tool_input", Dict(EmptyDict)).t = "dict"

\* "PreToolUse" and "deny"
PreToolUseChars == <<80, 114, 101, 84, 111, 111, 108, 85, 115, 101>>
DenyChars == <<100, 101, 110, 121>>

\* the JSON text is one object {hookSpecificOutput: {hookEventName: "PreToolUse",
\* permissionDecision: "deny", permissionDecisionReason: <string>}}
DenyShape(toks) ==
    LET v == Loads(toks)
    IN  /\ v.t = "dict"
        /\ DOMAIN v.v = {"hookSpecificOutput"}
        /\ v.v.hookSpecificOutput.t = "dict"
        /\ DOMAIN v.v.hookSpecificOutput.v =
              {"hookEventName", "permissionDecision", "permissionDecisionReason"}
        /\ v.v.hookSpecificOutput.v.hookEventName = Str(PreToolUseChars)
        /\ v.v.hookSpecificOutput.v.permissionDecision = Str(DenyChars)
        /\ v.v.hookSpecificOutput.v.permissionDecisionReason.t = "str"

\* C13 as claimed: for every JSON-parseable request main ends with exit code 0 and
\* stdout empty or holding exactly one deny object.
C13_ParseableExitsZero ==
    (pc = "exit" /\ ParseableRequest) =>
        /\ exit_code = 0
        /\ stdout = <<>> \/ (Len(stdout) = 1 /\ DenyShape(stdout[1]))

(***************************************************************************)
(* Shape of the denylist.                                                  *)
(***************************************************************************)
\* the character lies in one of the intervals of the pattern's character class
InPatternRange(c) ==
    \E r \in 1..Len(PatternRanges) : PatternRanges[r][1] <= c /\ c <= PatternRanges[r][2]

\* the space extract_content_from_tool_input joins the edits with
Separator == 32

\* C21: the denylist set has exactly 14 code points and the pattern five ranges; no
\* member of the set lies inside a range; neither the set nor a range contains a
\* monochrome lookalike (U+2713, U+00D7, U+2192, U+2022, U+2013, U+2014) or the space
\* that separates the edits of a MultiEdit.
C21_DenylistShape ==
    /\ Cardinality(COLORFUL_SYMBOLS) = 14
    /\ Len(PatternRanges) = 5
    /\ \A c \in COLORFUL_SYMBOLS : ~InPatternRange(c)
    /\ \A c \in { \H2713, \HD7, \H2192, \H2022, \H2013, \H2014, Separator } :
          c \notin COLORFUL_SYMBOLS /\ ~InPatternRange(c)

\* C21 witness: has_emojis has scanned a text made of a monochrome lookalike and a space
\* against the set and the ranges and found nothing.
C21_Witness ==
    /\ pc = "has_emojis"
    /\ text = Str(<<\H2713, Separator>>)
    /\ ret = Bool(FALSE)

(***************************************************************************)
(* Agreement of has_emojis and get_emoji_examples.                         *)
(***************************************************************************)
\* C22: for every text, has_emojis(text) is true exactly when get_emoji_examples(text, 3)
\* is non-empty, seen from the result of either call; and no denial that
\* process_hook_request returns has the fallback word "detected" where the examples go.
C22_ExamplesAgreeWithDetection ==
    /\ (pc = "has_emojis" /\ text.t = "str")
          => ((ret = Bool(TRUE)) <=> (get_emoji_examples(text, DefaultMaxExamples).v # <<>>))
    /\ (pc = "get_emoji_examples" /\ text.t = "str" /\ max_examples = DefaultMaxExamples)
          => ((ret.v # <<>>) <=> (has_emojis(text) = Bool(TRUE)))
    /\ (pc = "process_hook_request" /\ ret.t = "deny")
          => /\ ret.v.examples_str # Detected
             /\ ret.v.permissionDecisionReason
                    # Reason(ret.v.file_type, ret.v.file_path, Detected)

\* C22 witness: get_emoji_examples(text, 3) has returned one range character for a text
\* that holds no set character, the case only the second loop serves.
C22_Witness ==
    /\ pc = "get_emoji_examples"
    /\ max_examples = DefaultMaxExamples
    /\ text = Str(<<97, \H1F680>>)
    /\ ret = List(<<\H1F680>>)

(***************************************************************************)
(* MultiEdit: the verdict and the single edits.                            *)
(***************************************************************************)
\* the request at hand with the list es as its edits
WithEdits(es) ==
    Dict([k \in DOMAIN input_data.v |->
             IF k = "tool_input"
             THEN Dict([j \in DOMAIN ReqToolInput.v |->
                           IF j = "edits" THEN List(es) ELSE ReqToolInput.v[j]])
             ELSE input_data.v[k]])

\* the edits of the request at hand in the order p
Reordered(p) == [i \in 1..Len(ReqEdits) |-> ReqEdits[p[i]]]

\* C23: a MultiEdit on a monitored file with well-formed edits is denied exactly when the
\* new_string of at least one edit, taken alone, holds a disallowed character; and the
\* same edits in any other order get the same allow/deny outcome.
C23_MultiEditDeniedIffSomeEdit ==
    (pc = "process_hook_request" /\ ReqToolName = Str(MultiEditName) /\ MonitoredPath(ReqPath)) =>
        /\ ret.t \in {"deny", "None"}
        /\ ret.t = "deny" <=>
               \E i \in 1..Len(ReqEdits) : HasDisallowedChar(NewStringText(ReqEdits[i]))
        /\ \A p \in Permutations(1..Len(ReqEdits)) :
               process_hook_request(WithEdits(Reordered(p))).t = ret.t

\* C23 witness: a MultiEdit on a monitored file is denied for its second edit, a text of
\* several characters, while its first edit, also of several characters, holds no
\* disallowed character.
C23_Witness ==
    /\ pc = "process_hook_request"
    /\ MonitoredPath(ReqPath)
    /\ Len(ReqEdits) = 2
    /\ NewStringText(ReqEdits[1]) = <<\H2713, 32, \H2192>>
    /\ NewStringText(ReqEdits[2]) = <<97, \H2705, 97>>
    /\ ret.t = "deny"

(***************************************************************************)
(* The standalone script against the packaged module.                      *)
(***************************************************************************)
\* the well-formed requests among the inputs of the script
WellFormedRequests == MainRequests \cup MultiEditRequests

\* C24: for every well-formed request the standalone script decides as the packaged
\* EmojiChecker does: it prints a denial exactly when process_hook_request returns one,
\* and the denial names the same file kind label and the same example characters in the
\* same order; it exits with 0 either way.
C24_ScriptDecidesAsModule ==
    (pc = "script_exit" /\ input_data \in WellFormedRequests) =>
        /\ ret.t = process_hook_request(input_data).t
        /\ ret.t \in {"deny", "None"}
        /\ exit_code = 0
        /\ stderr = <<>>
        /\ stdout = IF ret.t = "deny" THEN <<Dumps(ResultDict(ret))>> ELSE <<>>
        /\ ret.t = "deny" =>
               /\ ret.v.file_type = process_hook_request(input_data).v.file_type
               /\ ret.v.examples_str = process_hook_request(input_data).v.examples_str
               /\ ret.v.permissionDecisionReason
                      = ScriptReason(process_hook_request(input_data).v.file_type,
                                     process_hook_request(input_data).v.file_path,
                                     process_hook_request(input_data).v.examples_str)

\* C24 witness: the script has denied a well-formed request on a Python file whose text
\* starts with a rocket, and names green check, cross mark and star as the examples:
\* the set characters before the range character, as the module does.
C24_Witness ==
    /\ pc = "script_exit"
    /\ input_data \in WellFormedRequests
    /\ ret.t = "deny"
    /\ ret.v.file_type = "Python"
    /\ ret.v.examples_str = <<\H2705, 32, \H274C, 32, \H2B50>>
    /\ stdout # <<>>

====
